---- MODULE Spec2Model ----
(***************************************************************************)
(* Verification model of the GitHub release dashboard's data layer:        *)
(*   - GitHubService (TTL cache, paginated fetches, review-status          *)
(*     derivation, workflow runs)                                          *)
(*   - RepoProvider (the repository snapshot and its load effect)          *)
(* Time is counted in minutes.  Strings are TLC strings, so cache keys are *)
(* built by concatenation and matched by prefix exactly as the code does.  *)
(***************************************************************************)
EXTENDS Integers, Sequences, FiniteSets, TLC

VARIABLES
  now,        \* Date.now(), in minutes
  cache,      \* GitHubService.cache : key -> [data, expiry]
  lastSet,    \* history: key -> the most recent setCacheItem on that key
  input,      \* what a list operation is called with and what the remote holds
  call,       \* the getPullRequests call that is suspended at review requests
  ret,        \* the last operation performed and what it returned
  ctx,        \* RepoProvider: its React state and the localStorage keys it owns
  tasks       \* RepoProvider: the async functions suspended at a network call

vars == <<now, cache, lastSet, input, call, ret, ctx, tasks>>

(***************************************************************************)
(* Bounds of the model                                                     *)
(***************************************************************************)
MaxTime == 2
MaxEntries == 2
MaxTTL == 2
MaxItems == 250
MaxFailPage == 3
MaxReviews == 2
ExtraPRs == 2
MaxTasks == 2
MaxEvents == 3

(***************************************************************************)
(* Helpers                                                                 *)
(***************************************************************************)
Null == "null"
Idle == [pc |-> "idle"]

Max(a, b) == IF a >= b THEN a ELSE b
Min(a, b) == IF a < b THEN a ELSE b

\* String.prototype.startsWith
StartsWith(k, p) == Len(p) <= Len(k) /\ SubSeq(k, 1, Len(p)) = p

\* Map.set / Map.delete on a function
MapSet(m, k, v) == [x \in DOMAIN m \cup {k} |-> IF x = k THEN v ELSE m[x]]
MapDelete(m, k) == [x \in DOMAIN m \ {k} |-> m[x]]
EmptyMap == [x \in {} |-> Null]

(***************************************************************************)
(* GitHubService: the TTL cache                                            *)
(***************************************************************************)
Owners == {"o", "oc"}
RepoNames == {"r", "rs"}
Pairs == {<<"o", "r">>, <<"o", "rs">>, <<"oc", "r">>}

\* `${owner}/${repo}:`
RepoPrefix(owner, repo) == owner \o "/" \o repo \o ":"

\* the keys the client builds: `${owner}/${repo}:labels` and so on
LabelsKey(owner, repo) == RepoPrefix(owner, repo) \o "labels"
PRsKey(owner, repo, state, labels) ==
  RepoPrefix(owner, repo) \o "prs:" \o state \o ":" \o labels
PRReviewKey(owner, repo, number) ==
  RepoPrefix(owner, repo) \o "pr:" \o ToString(number) \o ":review"
IssuesKey(owner, repo, state, labels) ==
  RepoPrefix(owner, repo) \o "issues:" \o state \o ":" \o labels
WorkflowsKey(owner, repo) == RepoPrefix(owner, repo) \o "workflows"
WorkflowRunsKey(owner, repo, workflowId) ==
  RepoPrefix(owner, repo) \o "workflow-runs:" \o workflowId

\* getCachedItem with the expiry test off by one (>= for >)
getCachedItem_expiredAtExpiry(c, key, t) ==
  IF key \notin DOMAIN c
    THEN [hit |-> FALSE, data |-> Null, cache |-> c]
    ELSE IF t >= c[key].expiry
      THEN [hit |-> FALSE, data |-> Null, cache |-> MapDelete(c, key)]
      ELSE [hit |-> TRUE, data |-> c[key].data, cache |-> c]

\* getCachedItem(key): the value returned and the cache it leaves
getCachedItem(c, key, t) ==
  IF key \notin DOMAIN c
    THEN [hit |-> FALSE, data |-> Null, cache |-> c]
    ELSE IF t > c[key].expiry
      THEN [hit |-> FALSE, data |-> Null, cache |-> MapDelete(c, key)]
      ELSE [hit |-> TRUE, data |-> c[key].data, cache |-> c]

\* setCacheItem that gives every entry the default life
setCacheItem_defaultExpiry(c, key, data, expiryMs, t) ==
  MapSet(c, key, [data |-> data, expiry |-> t + 30])

\* setCacheItem(key, data, expiryMs)
setCacheItem(c, key, data, expiryMs, t) ==
  MapSet(c, key, [data |-> data, expiry |-> t + expiryMs])

\* clearRepoCache matching on `${owner}/${repo}` without the closing colon
clearRepoCache_noColon(c, owner, repo) ==
  [k \in {x \in DOMAIN c : ~StartsWith(x, owner \o "/" \o repo)} |-> c[k]]

\* clearRepoCache(owner, repo)
clearRepoCache(c, owner, repo) ==
  [k \in {x \in DOMAIN c : ~StartsWith(x, RepoPrefix(owner, repo))} |-> c[k]]

(***************************************************************************)
(* GitHubService: pagination.  A remote list resource holds n items and is *)
(* served in pages of PageSize; a list is represented by its length (the   *)
(* pages are disjoint consecutive ranges, so the accumulated list is the   *)
(* first `items` entries of the resource).  failAt is the number of the    *)
(* page request that fails (0: none fails).                                *)
(***************************************************************************)
PageSize == 100
DefaultMaxPRs == 200
DefaultMaxIssues == 300
MaxRuns == 500
Unlimited == -1

\* response.data.length of page `page` of a resource of n items
PageLength(n, page) ==
  IF n - PageSize * (page - 1) <= 0 THEN 0
  ELSE Min(PageSize, n - PageSize * (page - 1))

\* the loop condition: `hasNextPage` alone, or `hasNextPage && all.length < max`
BelowCap(acc, cap) == cap = Unlimited \/ acc < cap

\* the test that ends the loop with a cap: `all.length >= max`
ReachedCap(acc, cap) == cap # Unlimited /\ acc >= cap

\* the pagination loop, entered with hasNextPage = true
RECURSIVE FetchPages(_, _, _, _, _, _)
FetchPages(n, cap, firstPageOnly, failAt, page, acc) ==
  IF ~BelowCap(acc, cap)
    THEN [ok |-> TRUE, items |-> acc, requests |-> page - 1]
  ELSE IF failAt = page
    THEN [ok |-> FALSE, items |-> acc, requests |-> page]
  ELSE LET got == PageLength(n, page)
           all == acc + got
       IN IF got < PageSize \/ ReachedCap(all, cap) \/ (page = 1 /\ firstPageOnly)
            THEN [ok |-> TRUE, items |-> all, requests |-> page]
            ELSE FetchPages(n, cap, firstPageOnly, failAt, page + 1, all)

\* the list left as fetched, without the slice
SliceToCap_noSlice(items, cap) == items

\* `if (all.length > max) all = all.slice(0, max)`
SliceToCap(items, cap) == IF cap # Unlimited /\ items > cap THEN cap ELSE items

\* a list operation whose page requests sit directly in the outer try:
\* getReleases, getLabels, getMilestones, getWorkflows (no cap),
\* getPullRequests (maxPRs, skipReviewData), the page loop of getIssues
FetchList(n, cap, firstPageOnly, failAt) ==
  LET r == FetchPages(n, cap, firstPageOnly, failAt, 1, 0) IN
  IF r.ok
    THEN [success |-> TRUE, items |-> SliceToCap(r.items, cap),
          requests |-> r.requests, failed |-> FALSE]
    ELSE [success |-> FALSE, items |-> 0, requests |-> r.requests,
          failed |-> TRUE]

\* getIssues: the page loop, then getIssueTypes (a label lookup that may
\* fail without failing getIssues: typesSuccess is only tested)
getIssuesRaw(n, maxIssues, failAt, typesFail) ==
  LET r == FetchList(n, maxIssues, FALSE, failAt) IN
  IF r.success THEN [r EXCEPT !.failed = typesFail] ELSE r

\* getWorkflowRuns: each page request has its own try/catch that only ends
\* the loop; the runs accumulated so far are cached and returned
getWorkflowRunsPaged(n, failAt) ==
  LET r == FetchPages(n, MaxRuns, FALSE, failAt, 1, 0) IN
  [success |-> TRUE, items |-> r.items,
   requests |-> r.requests, failed |-> ~r.ok]

(***************************************************************************)
(* GitHubService.getPullRequests: review-status derivation.  A pull        *)
(* request is [number, draft, merged, state, reviews, requested]: reviews  *)
(* is the list the reviews endpoint returns, in arrival order, each        *)
(* [user, state, submitted_at]; requested is the number of users in the    *)
(* requested-reviewers response.                                           *)
(***************************************************************************)
BatchSize == 10
DefaultCacheExpiry == 30
QuickPRsExpiry == 5
PRReviewExpiry == 60
IssuesExpiry == 30

\* a fallback that leaves an open pull request waiting for review
SyntheticStatus_reviewRequired(pr) ==
  IF pr.draft THEN "DRAFT"
  ELSE IF pr.merged THEN "APPROVED"
  ELSE IF pr.state = "closed" THEN "CHANGES_REQUESTED"
  ELSE "REVIEW_REQUIRED"

\* the status used by the skipReviewData branch and by the catch of a
\* failed review fetch
SyntheticStatus(pr) ==
  IF pr.draft THEN "DRAFT"
  ELSE IF pr.merged THEN "APPROVED"
  ELSE IF pr.state = "closed" THEN "CHANGES_REQUESTED"
  ELSE "NO_REVIEW"

\* `!pr.draft && !(pr.merged) && !(pr.state === 'closed' && !pr.merged)`
NeedsReviews(pr) ==
  ~pr.draft /\ ~pr.merged /\ ~(pr.state = "closed" /\ ~pr.merged)

\* `pr.state !== 'closed' && allReviews.length === 0`
NeedsRequestedReviewers(pr, allReviews) ==
  pr.state # "closed" /\ Len(allReviews) = 0

\* reviewerLatestReviews keeping the review that arrives last, whatever its
\* timestamp
RECURSIVE LatestByReviewer_lastArrived(_, _, _)
LatestByReviewer_lastArrived(allReviews, i, m) ==
  IF i > Len(allReviews) THEN m
  ELSE LatestByReviewer_lastArrived(allReviews, i + 1,
                                    MapSet(m, allReviews[i].user, allReviews[i]))

\* allReviews.forEach(...): reviewerLatestReviews after the reviews i..Len
\* were visited, starting from the map m
RECURSIVE LatestByReviewer(_, _, _)
LatestByReviewer(allReviews, i, m) ==
  IF i > Len(allReviews) THEN m
  ELSE LET review == allReviews[i]
           reviewer == review.user
       IN IF reviewer \notin DOMAIN m
               \/ review.submitted_at > m[reviewer].submitted_at
            THEN LatestByReviewer(allReviews, i + 1, MapSet(m, reviewer, review))
            ELSE LatestByReviewer(allReviews, i + 1, m)

\* Object.values(reviewerLatestReviews)
LatestReviews(allReviews) ==
  LET m == LatestByReviewer(allReviews, 1, EmptyMap) IN {m[u] : u \in DOMAIN m}

\* the if-chain with the approval tested before the requested changes
DetermineStatus_approvalFirst(pr, allReviews, reviewStatus) ==
  IF pr.draft THEN "DRAFT"
  ELSE IF pr.merged THEN "APPROVED"
  ELSE IF pr.state = "closed" THEN "CHANGES_REQUESTED"
  ELSE IF Len(allReviews) > 0
    THEN LET latestReviews == LatestReviews(allReviews)
         IN IF \E review \in latestReviews : review.state = "APPROVED"
              THEN "APPROVED"
            ELSE IF \E review \in latestReviews : review.state = "CHANGES_REQUESTED"
              THEN "CHANGES_REQUESTED"
            ELSE "COMMENTED"
  ELSE reviewStatus

\* the if-chain that determines the status from the collected data;
\* reviewStatus is the value the variable holds when the chain is entered
DetermineStatus(pr, allReviews, reviewStatus) ==
  IF pr.draft THEN "DRAFT"
  ELSE IF pr.merged THEN "APPROVED"
  ELSE IF pr.state = "closed" THEN "CHANGES_REQUESTED"
  ELSE IF Len(allReviews) > 0
    THEN LET latestReviews == LatestReviews(allReviews)
             hasChangesRequested ==
               \E review \in latestReviews : review.state = "CHANGES_REQUESTED"
             hasApproval ==
               \E review \in latestReviews : review.state = "APPROVED"
         IN IF hasChangesRequested THEN "CHANGES_REQUESTED"
            ELSE IF hasApproval THEN "APPROVED"
            ELSE "COMMENTED"
  ELSE reviewStatus

\* the status of a pull request whose review calls all succeeded
ReviewStatus(pr) ==
  LET initial == IF pr.draft THEN "DRAFT" ELSE "NO_REVIEW"
      allReviews == IF NeedsReviews(pr) THEN pr.reviews ELSE <<>>
      reviewStatus ==
        IF NeedsReviews(pr) /\ NeedsRequestedReviewers(pr, allReviews)
             /\ pr.requested > 0
          THEN "REVIEW_REQUIRED" ELSE initial
  IN DetermineStatus(pr, allReviews, reviewStatus)

\* `{...pr, reviewStatus}`; how is history, kept for the claims: the way the
\* status was obtained ("synthetic": the skipReviewData branch, "derived":
\* review data, "cached": the per-pull-request cache, "fallback": the catch
\* of a failed review call)
WithStatus(pr, reviewStatus, how) ==
  [number |-> pr.number, reviewStatus |-> reviewStatus, how |-> how]

(***************************************************************************)
(* GitHubService.getPullRequests: the batch loop.  The callbacks of one    *)
(* batch start together; each runs up to its first review request, and the *)
(* requests return one by one in any order.  When the last one of a batch  *)
(* has returned the loop goes on without interruption to the next batch.   *)
(* call.stage[j] is where the callback of allPRs[j] stands: "reviews"      *)
(* (listReviews in flight), "requests" (listRequestedReviewers in flight)  *)
(* or "done"; call.result[j] is what it returned and how it got it.        *)
(***************************************************************************)
\* a slice that takes the rest of the list
BatchOf_rest(allPRs, i) == (i + 1)..Len(allPRs)

\* allPRs.slice(i, i + batchSize), as positions
BatchOf(allPRs, i) ==
  (i + 1)..Min(i + BatchSize, Len(allPRs))

Result(pr, reviewStatus, how) ==
  [pr |-> WithStatus(pr, reviewStatus, how), how |-> how]

\* the callbacks of the batch that starts after index i, run one after the
\* other from j on, each up to its first await or, when it awaits nothing,
\* to its return
RECURSIVE StartBatch(_, _, _, _, _, _, _)
StartBatch(c, t, owner, repo, allPRs, j, st) ==
  IF j \notin BatchOf(allPRs, st.i)
    THEN [cache |-> c, call |-> st]
  ELSE LET pr == allPRs[j]
           prReviewCacheKey == PRReviewKey(owner, repo, pr.number)
           cached == getCachedItem(c, prReviewCacheKey, t)
       IN IF cached.hit
            THEN StartBatch(cached.cache, t, owner, repo, allPRs, j + 1,
                   [st EXCEPT !.stage = MapSet(@, j, "done"),
                              !.result = MapSet(@, j, Result(pr, cached.data, "cached"))])
          ELSE IF NeedsReviews(pr)
            THEN StartBatch(cached.cache, t, owner, repo, allPRs, j + 1,
                   [st EXCEPT !.stage = MapSet(@, j, "reviews")])
          ELSE StartBatch(
                   setCacheItem(cached.cache, prReviewCacheKey,
                                ReviewStatus(pr), PRReviewExpiry, t),
                   t, owner, repo, allPRs, j + 1,
                   [st EXCEPT !.stage = MapSet(@, j, "done"),
                              !.result = MapSet(@, j,
                                  Result(pr, ReviewStatus(pr), "derived"))])

BatchDone(st) == \A j \in DOMAIN st.stage : st.stage[j] = "done"

\* the loop from the point where every callback of the current batch has
\* returned: append the batch results, start the next batch, and so on until
\* a batch has a request in flight or the list is exhausted; then cache the
\* list and return
RECURSIVE ContinueBatches(_, _, _)
ContinueBatches(c, t, st) ==
  IF ~BatchDone(st) THEN [cache |-> c, call |-> st, returned |-> FALSE]
  ELSE LET batchResults == [k \in 1..Cardinality(DOMAIN st.stage) |->
                               st.result[st.i + k]]
           processedPRs == st.processed \o batchResults
           i == st.i + BatchSize
       IN IF i < Len(st.allPRs)
            THEN LET nb == StartBatch(c, t, st.owner, st.repo, st.allPRs, i + 1,
                              [st EXCEPT !.i = i, !.stage = EmptyMap,
                                         !.result = EmptyMap,
                                         !.processed = processedPRs])
                 IN ContinueBatches(nb.cache, t, nb.call)
            ELSE [cache |-> setCacheItem(c, st.cacheKey,
                               [k \in 1..Len(processedPRs) |-> processedPRs[k].pr],
                               DefaultCacheExpiry, t),
                  call |-> [st EXCEPT !.processed = processedPRs],
                  returned |-> TRUE]

\* the envelope of a full fetch that ran through its batches
FullEnvelope(st) ==
  [op |-> "getPullRequests", success |-> TRUE, fromCache |-> FALSE,
   incomplete |-> FALSE,
   pullRequests |-> [k \in 1..Len(st.processed) |-> st.processed[k].pr],
   how |-> [k \in 1..Len(st.processed) |-> st.processed[k].how],
   fetched |-> st.allPRs]

(***************************************************************************)
(* The cache on its own: setCacheItem, getCachedItem, clearRepoCache and   *)
(* the clock, over the keys the client builds for a few repositories.      *)
(***************************************************************************)
\* RepoProvider before a repository is selected: the useState initial values
\* (itemLimit 0 stands for null), nothing in localStorage.  limitChanged is
\* history, kept for the claims: the item limit was changed while a
\* repository was loaded, and since then no load has started and the user
\* has not unloaded the repository; cleared: clearRepoData() was called by
\* the user and no repository has been selected since; issuesLabelled: how
\* many label changes of the remote the issues of the snapshot show;
\* reloadOwed: the label change for which a reload is wanted; selectPending:
\* fetchRepoData was called and no load has started since, nor has the user
\* unloaded the repository
NoData == ""
NoList == [from |-> NoData, detail |-> "", cap |-> 0]
NoReleases == [from |-> NoData, created |-> FALSE]
NoLimit == 0

InitialContext ==
  [currentRepo |-> Null, owner |-> "", repo |-> "", loading |-> FALSE,
   error |-> "", releases |-> NoReleases, pullRequests |-> NoList,
   issues |-> NoData, issuesLabelled |-> 0, labels |-> NoData,
   milestones |-> NoData, issueTypes |-> NoData, reviewStatuses |-> NoList,
   shouldLoadRepo |-> FALSE, itemLimit |-> NoLimit,
   lastUsedItemLimit |-> NoLimit, storedOwner |-> "", storedRepo |-> "",
   limitChanged |-> FALSE, cleared |-> FALSE, selectPending |-> FALSE,
   reloadOwed |-> 0]

NoTask == [kind |-> "none"]
NoTasks == [id \in 1..MaxTasks |-> NoTask]

Values == {"v1", "v2"}
TTLs == 1..MaxTTL

ClientKeys ==
  {LabelsKey("o", "r"), PRsKey("o", "r", "all", ""), LabelsKey("o", "rs")}

InitCache ==
  /\ now = 0
  /\ cache = EmptyMap
  /\ lastSet = EmptyMap
  /\ input = [n |-> 0, cap |-> Unlimited, failAt |-> 0]
  /\ call = Idle
  /\ ret = [op |-> "init"]
  /\ ctx = InitialContext
  /\ tasks = NoTasks

SetCacheItem(key, data, expiryMs) ==
  /\ Cardinality(DOMAIN lastSet \cup {key}) <= MaxEntries
  /\ cache' = setCacheItem(cache, key, data, expiryMs, now)
  /\ lastSet' = MapSet(lastSet, key,
        [data |-> data, expires |-> now + expiryMs,
         afterMiss |-> ret = [op |-> "getCachedItem", key |-> key,
                              hit |-> FALSE, data |-> Null, expired |-> TRUE]])
  /\ ret' = [op |-> "setCacheItem", key |-> key]
  /\ UNCHANGED <<now, input, call, ctx, tasks>>

GetCachedItem(key) ==
  LET r == getCachedItem(cache, key, now) IN
  /\ cache' = r.cache
  /\ ret' = [op |-> "getCachedItem", key |-> key, hit |-> r.hit,
             data |-> r.data, expired |-> key \in DOMAIN cache /\ ~r.hit]
  /\ UNCHANGED <<now, lastSet, input, call, ctx, tasks>>

ClearRepoCache(owner, repo) ==
  /\ cache' = clearRepoCache(cache, owner, repo)
  /\ lastSet' = [k \in DOMAIN lastSet \cap DOMAIN cache' |-> lastSet[k]]
  /\ ret' = [op |-> "clearRepoCache", owner |-> owner, repo |-> repo]
  /\ UNCHANGED <<now, input, call, ctx, tasks>>

Tick ==
  /\ now < MaxTime
  /\ now' = now + 1
  /\ ret' = [op |-> "tick"]
  /\ UNCHANGED <<cache, lastSet, input, call, ctx, tasks>>

NextTTL ==
  \/ \E key \in ClientKeys, data \in Values, ttl \in TTLs :
        SetCacheItem(key, data, ttl)
  \/ \E key \in ClientKeys : GetCachedItem(key)
  \/ Tick

SpecTTL == InitCache /\ [][NextTTL]_vars

NextCache ==
  \/ \E key \in ClientKeys, data \in Values, ttl \in TTLs :
        SetCacheItem(key, data, ttl)
  \/ \E key \in ClientKeys : GetCachedItem(key)
  \/ \E p \in Pairs : ClearRepoCache(p[1], p[2])
  \/ Tick

SpecCache == InitCache /\ [][NextCache]_vars

\* C1: getCachedItem(key) returns the value of the most recent
\* setCacheItem(key, v, ttl) exactly when the current time is not past that
\* set's time + ttl; otherwise it returns a miss and the entry is gone from
\* the cache; every stored entry carries the value and the expiry
\* (time of the set + ttl, recorded in lastSet) of the most recent set on
\* its key.
C1_TTLCorrect ==
  /\ \A k \in DOMAIN cache :
        /\ k \in DOMAIN lastSet
        /\ cache[k].data = lastSet[k].data
        /\ cache[k].expiry = lastSet[k].expires
  /\ ret.op = "getCachedItem" =>
        IF ret.key \in DOMAIN lastSet
             /\ now <= lastSet[ret.key].expires
          THEN ret.hit /\ ret.data = lastSet[ret.key].data
          ELSE ~ret.hit /\ ret.data = Null /\ ret.key \notin DOMAIN cache

\* a key that expired and was evicted by a read, was set again and is read
\* back with the new value
C1_Witness ==
  /\ ret.op = "getCachedItem"
  /\ ret.hit
  /\ ret.key \in DOMAIN lastSet
  /\ lastSet[ret.key].afterMiss

\* C2: clearRepoCache(owner1, repo1) removes every entry whose key lies
\* under "owner1/repo1:" and leaves the entries of every other (owner, repo)
\* pair as they were (same value, same expiry); every key in the cache lies
\* under the prefix of exactly one (owner, repo) pair.
C2_PrefixInvalidation ==
  [][/\ \A k \in DOMAIN cache' :
          Cardinality({p \in Pairs : StartsWith(k, RepoPrefix(p[1], p[2]))}) = 1
     /\ ret'.op = "clearRepoCache" =>
          \A p \in Pairs : \A k \in DOMAIN cache :
            StartsWith(k, RepoPrefix(p[1], p[2])) =>
              IF p = <<ret'.owner, ret'.repo>>
                THEN k \notin DOMAIN cache'
                ELSE k \in DOMAIN cache' /\ cache'[k] = cache[k]]_vars

\* a clear of "o/r" has just run, the entry of "o/r" that was last written
\* is gone and the entry of "o/rs" is still there
C2_Witness ==
  /\ ret.op = "clearRepoCache"
  /\ ret.owner = "o" /\ ret.repo = "r"
  /\ LabelsKey("o", "r") \notin DOMAIN cache
  /\ LabelsKey("o", "rs") \in DOMAIN cache
  /\ PRsKey("o", "r", "all", "") \notin DOMAIN cache

(***************************************************************************)
(* The list operations of the client against a resource of n items         *)
(***************************************************************************)
ItemCounts == 0..MaxItems
Caps == {1, PageSize - 1, PageSize, PageSize + 1, 120,
         DefaultMaxPRs, DefaultMaxIssues}
FailPages == 0..MaxFailPage
UncappedOps == {"getReleases", "getLabels", "getMilestones", "getWorkflows"}

Returned(op, cap, skip, r) ==
  [op |-> op, cap |-> cap, skipReviewData |-> skip,
   success |-> r.success, items |-> r.items, requests |-> r.requests,
   failed |-> r.failed]

\* the resource holds input.n items, the caller passes input.cap where the
\* operation takes a cap, page request number input.failAt fails
InitPage ==
  /\ now = 0
  /\ cache = EmptyMap
  /\ lastSet = EmptyMap
  /\ input \in [n : ItemCounts, cap : Caps, failAt : FailPages]
  /\ call = Idle
  /\ ret = [op |-> "init"]
  /\ ctx = InitialContext
  /\ tasks = NoTasks

\* getReleases, getLabels (cache miss), getMilestones, getWorkflows
GetUncapped(op) ==
  /\ ret' = Returned(op, Unlimited, FALSE,
                     FetchList(input.n, Unlimited, FALSE, input.failAt))
  /\ UNCHANGED <<now, cache, lastSet, input, call, ctx, tasks>>

\* getPullRequests on a cache miss, up to the list it hands to the review
\* processing or to the skipReviewData branch
GetPullRequestsList(skipReviewData) ==
  /\ ret' = Returned("getPullRequests", input.cap, skipReviewData,
                     FetchList(input.n, input.cap, skipReviewData, input.failAt))
  /\ UNCHANGED <<now, cache, lastSet, input, call, ctx, tasks>>

\* getIssues on a cache miss, before the pull-request filter
GetIssuesList(typesFail) ==
  /\ ret' = Returned("getIssues", input.cap, FALSE,
                     getIssuesRaw(input.n, input.cap, input.failAt, typesFail))
  /\ UNCHANGED <<now, cache, lastSet, input, call, ctx, tasks>>

\* getWorkflowRuns on a cache miss
GetWorkflowRunsList ==
  /\ ret' = Returned("getWorkflowRuns", MaxRuns, FALSE,
                     getWorkflowRunsPaged(input.n, input.failAt))
  /\ UNCHANGED <<now, cache, lastSet, input, call, ctx, tasks>>

NextPage ==
  \/ \E op \in UncappedOps : GetUncapped(op)
  \/ \E skip \in BOOLEAN : GetPullRequestsList(skip)
  \/ \E tf \in BOOLEAN : GetIssuesList(tf)
  \/ GetWorkflowRunsList

SpecPage == InitPage /\ [][NextPage]_vars

\* number of page requests needed to see k items: ceil(k / PageSize), at
\* least one
PagesFor(k) == IF k = 0 THEN 1 ELSE (k + PageSize - 1) \div PageSize

\* C4: against a source of n items served in pages of 100, an uncapped fetch
\* returns all n items and stops at the first short page (n \div 100 + 1
\* page requests); a fetch capped at m returns min(n, m) items and issues no
\* page request after a short page or after the accumulated count reached m.
\* With n = 250: no cap gives 250 items in 3 requests, cap 120 gives 120
\* items in 2 requests.
C4_Pagination ==
  (ret.op # "init" /\ ret.success /\ ~ret.failed /\ ~ret.skipReviewData
     /\ ret.op # "getWorkflowRuns") =>
    IF ret.cap = Unlimited
      THEN /\ ret.items = input.n
           /\ ret.requests = input.n \div PageSize + 1
           /\ input.n = 250 => (ret.items = 250 /\ ret.requests = 3)
      ELSE /\ ret.items = Min(input.n, ret.cap)
           /\ ret.requests =
                Min(input.n \div PageSize + 1, PagesFor(ret.cap))
           /\ (input.n = 250 /\ ret.cap = 120) =>
                (ret.items = 120 /\ ret.requests = 2)

\* the capped example of the claim: 250 items, cap 120, two page requests
C4_Witness ==
  /\ ret.op = "getPullRequests"
  /\ ~ret.skipReviewData
  /\ input.n = 250 /\ ret.cap = 120
  /\ ret.success /\ ret.items = 120 /\ ret.requests = 2

(***************************************************************************)
(* getPullRequests("o", "r") against the pull requests input.prs           *)
(***************************************************************************)
\* getPullRequests(owner, repo, "all", "", {maxPRs, skipReviewData}) up to
\* its first review request, or to its return when it awaits none
GetPullRequests(owner, repo, maxPRs, skipReviewData) ==
  /\ call = Idle
  /\ LET cacheKey == PRsKey(owner, repo, "all", "")
         cachedData == getCachedItem(cache, cacheKey, now)
         list == FetchList(Len(input.prs), maxPRs, skipReviewData, input.failAt)
         allPRs == SubSeq(input.prs, 1, list.items)
     IN IF cachedData.hit
          THEN /\ cache' = cachedData.cache
               /\ call' = call
               /\ ret' = [op |-> "getPullRequests", success |-> TRUE,
                          fromCache |-> TRUE, incomplete |-> FALSE,
                          skipReviewData |-> skipReviewData,
                          pullRequests |-> cachedData.data]
        ELSE IF ~list.success
          THEN /\ cache' = cachedData.cache
               /\ call' = call
               /\ ret' = [op |-> "getPullRequests", success |-> FALSE]
        ELSE IF skipReviewData
          THEN LET simplePRs == [k \in 1..Len(allPRs) |->
                                   WithStatus(allPRs[k], SyntheticStatus(allPRs[k]),
                                              "synthetic")]
               IN /\ cache' = setCacheItem(cachedData.cache, cacheKey, simplePRs,
                                           QuickPRsExpiry, now)
                  /\ call' = call
                  /\ ret' = [op |-> "getPullRequests", success |-> TRUE,
                             fromCache |-> FALSE, incomplete |-> TRUE,
                             skipReviewData |-> skipReviewData,
                             pullRequests |-> simplePRs]
        ELSE LET st == [pc |-> "batch", owner |-> owner, repo |-> repo,
                        cacheKey |-> cacheKey, allPRs |-> allPRs, i |-> 0,
                        stage |-> EmptyMap, result |-> EmptyMap,
                        processed |-> <<>>]
                 first == StartBatch(cachedData.cache, now, owner, repo, allPRs, 1, st)
                 go == ContinueBatches(first.cache, now, first.call)
             IN /\ cache' = go.cache
                /\ call' = IF go.returned THEN Idle ELSE go.call
                /\ ret' = IF go.returned THEN FullEnvelope(go.call)
                          ELSE [op |-> "getPullRequests", pending |-> TRUE]
  /\ UNCHANGED <<now, lastSet, input, ctx, tasks>>

\* the callback of allPRs[j] has returned r; the loop goes on if it was the
\* last one of its batch
CallbackReturns(j, c, r) ==
  LET st == [call EXCEPT !.stage[j] = "done", !.result = MapSet(@, j, r)]
      go == ContinueBatches(c, now, st)
  IN /\ cache' = go.cache
     /\ call' = IF go.returned THEN Idle ELSE go.call
     /\ ret' = IF go.returned THEN FullEnvelope(go.call)
               ELSE [op |-> "getPullRequests", pending |-> TRUE]

\* listReviews of allPRs[j] returns (all its reviews fit one page) or fails
ReviewsReturn(j, ok) ==
  /\ call.pc = "batch"
  /\ j \in DOMAIN call.stage
  /\ call.stage[j] = "reviews"
  /\ LET pr == call.allPRs[j]
         allReviews == pr.reviews
         key == PRReviewKey(call.owner, call.repo, pr.number)
         reviewStatus == DetermineStatus(pr, allReviews, "NO_REVIEW")
     IN IF ~ok
          THEN CallbackReturns(j, cache, Result(pr, SyntheticStatus(pr), "fallback"))
        ELSE IF NeedsRequestedReviewers(pr, allReviews)
          THEN /\ call' = [call EXCEPT !.stage[j] = "requests"]
               /\ UNCHANGED <<cache, ret>>
        ELSE CallbackReturns(j,
               setCacheItem(cache, key, reviewStatus, PRReviewExpiry, now),
               Result(pr, reviewStatus, "derived"))
  /\ UNCHANGED <<now, lastSet, input, ctx, tasks>>

\* listRequestedReviewers of allPRs[j] returns or fails
RequestedReviewersReturn(j, ok) ==
  /\ call.pc = "batch"
  /\ j \in DOMAIN call.stage
  /\ call.stage[j] = "requests"
  /\ LET pr == call.allPRs[j]
         key == PRReviewKey(call.owner, call.repo, pr.number)
         reviewStatus ==
           DetermineStatus(pr, <<>>,
             IF pr.requested > 0 THEN "REVIEW_REQUIRED" ELSE "NO_REVIEW")
     IN IF ~ok
          THEN CallbackReturns(j, cache, Result(pr, SyntheticStatus(pr), "fallback"))
          ELSE CallbackReturns(j,
                 setCacheItem(cache, key, reviewStatus, PRReviewExpiry, now),
                 Result(pr, reviewStatus, "derived"))
  /\ UNCHANGED <<now, lastSet, input, ctx, tasks>>

NextPRs ==
  \/ \E skip \in BOOLEAN : GetPullRequests("o", "r", input.cap, skip)
  \/ \E j \in 1..Len(input.prs), ok \in BOOLEAN : ReviewsReturn(j, ok)
  \/ \E j \in 1..Len(input.prs), ok \in BOOLEAN : RequestedReviewersReturn(j, ok)

\* one pull request with every combination of flags, reviews and requested
\* reviewers
Reviewers == {"alice", "bob"}
ReviewStates == {"APPROVED", "CHANGES_REQUESTED", "COMMENTED"}
Stamps == {1, 2}
Reviews == [user : Reviewers, state : ReviewStates, submitted_at : Stamps]
ReviewLists == UNION {[1..k -> Reviews] : k \in 0..MaxReviews}

InitStatus ==
  /\ now = 0
  /\ cache = EmptyMap
  /\ lastSet = EmptyMap
  /\ \E pr \in [number : {1}, draft : BOOLEAN, merged : BOOLEAN,
                state : {"open", "closed"}, reviews : ReviewLists,
                requested : {0, 1}] :
        input = [n |-> 1, cap |-> DefaultMaxPRs, failAt |-> 0, prs |-> <<pr>>]
  /\ call = Idle
  /\ ret = [op |-> "init"]
  /\ ctx = InitialContext
  /\ tasks = NoTasks

SpecStatus == InitStatus /\ [][NextPRs]_vars

\* what the claims say the status of a pull request is, from the set of its
\* reviews (no arrival order): the reviews of each reviewer that carry that
\* reviewer's greatest timestamp
LatestOf(rs) ==
  {r \in rs : \A q \in rs : q.user = r.user => q.submitted_at <= r.submitted_at}

\* every reviewer has one latest review, or several of the same state
LatestIsUnique(rs) ==
  \A r \in LatestOf(rs), q \in LatestOf(rs) : r.user = q.user => r.state = q.state

\* the ways to keep one latest review per reviewer
LatestSelections(rs) ==
  {sel \in SUBSET LatestOf(rs) :
     \A r \in LatestOf(rs) :
        Cardinality({q \in sel : q.user = r.user}) = 1}

ChainStatus(pr, latest) ==
  IF pr.draft THEN "DRAFT"
  ELSE IF pr.merged THEN "APPROVED"
  ELSE IF pr.state = "closed" THEN "CHANGES_REQUESTED"
  ELSE IF \E r \in latest : r.state = "CHANGES_REQUESTED" THEN "CHANGES_REQUESTED"
  ELSE IF \E r \in latest : r.state = "APPROVED" THEN "APPROVED"
  ELSE IF pr.reviews # <<>> THEN "COMMENTED"
  ELSE IF pr.state = "open" /\ pr.requested > 0 THEN "REVIEW_REQUIRED"
  ELSE "NO_REVIEW"

ReviewSet(pr) == {pr.reviews[k] : k \in 1..Len(pr.reviews)}

FullReturn ==
  /\ ret.op = "getPullRequests"
  /\ "how" \in DOMAIN ret

\* C5: when the review data of a pull request was fetched (no cached status,
\* no failed call), the status a full getPullRequests gives it is the result
\* of the chain draft, merged, closed, changes requested among the latest
\* reviews per reviewer, approved among them, any review, requested
\* reviewers, none -- for one latest review kept per reviewer.
C5_StatusChain ==
  FullReturn =>
    \A k \in 1..Len(ret.pullRequests) :
      ret.how[k] = "derived" =>
        \E latest \in LatestSelections(ReviewSet(ret.fetched[k])) :
          ret.pullRequests[k].reviewStatus = ChainStatus(ret.fetched[k], latest)

\* an open pull request with reviews of two reviewers, one approving and one
\* requesting changes, was given CHANGES_REQUESTED from fetched review data
C5_Witness ==
  /\ FullReturn
  /\ Len(ret.pullRequests) = 1
  /\ ret.how[1] = "derived"
  /\ ret.fetched[1].state = "open" /\ ~ret.fetched[1].draft /\ ~ret.fetched[1].merged
  /\ {r.state : r \in ReviewSet(ret.fetched[1])} = {"APPROVED", "CHANGES_REQUESTED"}
  /\ Cardinality({r.user : r \in ReviewSet(ret.fetched[1])}) = 2
  /\ ret.pullRequests[1].reviewStatus = "CHANGES_REQUESTED"

Review(user, state, at) == [user |-> user, state |-> state, submitted_at |-> at]

\* C6: for an open, non-draft, unmerged pull request only the latest review
\* of each reviewer counts, in whatever order the reviews arrive (where every
\* reviewer has a single latest review): approved then changes requested by
\* one reviewer is CHANGES_REQUESTED, changes requested then approved is
\* APPROVED, an approval plus another reviewer's comment is APPROVED.
C6_LatestPerReviewer ==
  FullReturn =>
    \A k \in 1..Len(ret.pullRequests) :
      LET pr == ret.fetched[k]
          rs == ReviewSet(pr)
          status == ret.pullRequests[k].reviewStatus
      IN (ret.how[k] = "derived" /\ pr.state = "open" /\ ~pr.draft /\ ~pr.merged
            /\ rs # {}) =>
           /\ LatestIsUnique(rs) =>
                status = IF \E r \in LatestOf(rs) : r.state = "CHANGES_REQUESTED"
                           THEN "CHANGES_REQUESTED"
                         ELSE IF \E r \in LatestOf(rs) : r.state = "APPROVED"
                           THEN "APPROVED"
                         ELSE "COMMENTED"
           /\ rs = {Review("alice", "APPROVED", 1),
                    Review("alice", "CHANGES_REQUESTED", 2)}
                => status = "CHANGES_REQUESTED"
           /\ rs = {Review("alice", "CHANGES_REQUESTED", 1),
                    Review("alice", "APPROVED", 2)}
                => status = "APPROVED"
           /\ (\E t1 \in Stamps, t2 \in Stamps :
                 rs = {Review("alice", "APPROVED", t1),
                       Review("bob", "COMMENTED", t2)})
                => status = "APPROVED"

\* the newer "changes requested" review arrives before the older approval
\* of the same reviewer, and the status is CHANGES_REQUESTED
C6_Witness ==
  /\ FullReturn
  /\ Len(ret.pullRequests) = 1
  /\ ret.how[1] = "derived"
  /\ ret.fetched[1].state = "open" /\ ~ret.fetched[1].draft /\ ~ret.fetched[1].merged
  /\ ret.fetched[1].reviews = <<Review("alice", "CHANGES_REQUESTED", 2),
                                Review("alice", "APPROVED", 1)>>
  /\ ret.pullRequests[1].reviewStatus = "CHANGES_REQUESTED"

\* C3: a list operation one of whose remote calls failed returns a failure
\* envelope, never a success envelope (the per-pull-request review calls of
\* getPullRequests are not among these calls).
C3_FailureEnvelope ==
  ret.op # "init" => (ret.failed => ~ret.success)

(***************************************************************************)
(* getPullRequests against a list of up to BatchSize + ExtraPRs pull       *)
(* requests.  The pull requests at the positions input.open are open and   *)
(* need their reviews; the others are draft, merged or closed in turn.     *)
(***************************************************************************)
ListSizes == {0, 1, BatchSize, BatchSize + 1, BatchSize + ExtraPRs}
OpenSlots == {1, 2, BatchSize, BatchSize + 1, BatchSize + ExtraPRs}

\* the review data of the open pull requests, in turn
OpenPR(number, kind) ==
  [number |-> number, draft |-> FALSE, merged |-> FALSE, state |-> "open",
   reviews |->
     IF kind = 0 THEN <<>>
     ELSE IF kind = 1 THEN <<>>
     ELSE IF kind = 2 THEN <<Review("alice", "APPROVED", 1)>>
     ELSE <<Review("alice", "APPROVED", 1), Review("bob", "CHANGES_REQUESTED", 2)>>,
   requested |-> IF kind = 1 THEN 1 ELSE 0]

SettledPR(number) ==
  [number |-> number, draft |-> number % 3 = 0, merged |-> number % 3 = 1,
   state |-> IF number % 3 = 0 THEN "open" ELSE "closed",
   reviews |-> <<>>, requested |-> 0]

PRList(n, open, shift) ==
  [j \in 1..n |-> IF j \in open THEN OpenPR(j, (j + shift) % 4) ELSE SettledPR(j)]

InitBatch ==
  /\ now = 0
  /\ cache = EmptyMap
  /\ lastSet = EmptyMap
  /\ \E n \in ListSizes, open \in SUBSET OpenSlots, shift \in 0..3 :
        /\ open \subseteq 1..n
        /\ input = [n |-> n, cap |-> DefaultMaxPRs, failAt |-> 0,
                    prs |-> PRList(n, open, shift)]
  /\ call = Idle
  /\ ret = [op |-> "init"]
  /\ ctx = InitialContext
  /\ tasks = NoTasks

SpecBatch == InitBatch /\ [][NextPRs]_vars

\* C7: when review calls of some pull requests fail during a full
\* getPullRequests, it still returns success with every fetched pull request
\* in place; a failing one carries the synthetic status (draft, merged,
\* closed, else NO_REVIEW) and every other one, in the same batch or in
\* another, the status its own review data gives.
C7_PartialFailure ==
  FullReturn =>
    /\ ret.success
    /\ Len(ret.pullRequests) = Len(ret.fetched)
    /\ \A k \in 1..Len(ret.pullRequests) :
         /\ ret.pullRequests[k].number = ret.fetched[k].number
         /\ ret.pullRequests[k].reviewStatus =
              IF ret.how[k] = "fallback"
                THEN (IF ret.fetched[k].draft THEN "DRAFT"
                      ELSE IF ret.fetched[k].merged THEN "APPROVED"
                      ELSE IF ret.fetched[k].state = "closed" THEN "CHANGES_REQUESTED"
                      ELSE "NO_REVIEW")
                ELSE ChainStatus(ret.fetched[k], LatestOf(ReviewSet(ret.fetched[k])))

\* the review fetch of pull request 1 failed; pull request 2 of the same
\* batch and pull request 11 of the next batch have review-derived statuses
C7_Witness ==
  /\ FullReturn
  /\ Len(ret.pullRequests) > BatchSize
  /\ ret.how[1] = "fallback"
  /\ ret.how[2] = "derived" /\ ret.pullRequests[2].reviewStatus # "NO_REVIEW"
  /\ ret.how[BatchSize + 1] = "derived"
  /\ ret.pullRequests[BatchSize + 1].reviewStatus # "NO_REVIEW"


(***************************************************************************)
(* RepoProvider.  Its React state is ctx; a list of the snapshot is kept   *)
(* as the full name of the repository it was fetched from (NoData: empty), *)
(* the pull requests and the review statuses also as the kind of list they *)
(* come from (quick: synthetic statuses, full: with review data).  An      *)
(* async function of the provider that is suspended at a network call is a *)
(* task; a call the client answers from its cache resumes in the same turn *)
(* of the event loop, so it is part of the step that makes it.  A handler  *)
(* runs with the effects that its state changes trigger.                   *)
(* The pull-request cache of the client is cache; every lookup reads the   *)
(* wall clock, which is not the provider's to control: the time read is    *)
(* within the life of the entry or past its expiry.                        *)
(***************************************************************************)
Repositories == {<<"o", "r">>, <<"o", "rs">>}
ItemLimits == {NoLimit, 50}

FetchFailed == "Failed to fetch repository. Please check repository details."
LoadError == "An error occurred while fetching repository data."
OpError == "Failed"

FullName(owner, repo) == owner \o "/" \o repo
\* a list of pull requests as getPullRequests returns it: fetched from the
\* repository `from`, cut to `cap` items, with synthetic statuses (quick) or
\* with review data (full, under the default cap)
QuickList(owner, repo, cap) ==
  [from |-> FullName(owner, repo), detail |-> "quick", cap |-> cap]
FullList(owner, repo) ==
  [from |-> FullName(owner, repo), detail |-> "full", cap |-> DefaultMaxPRs]

\* maxPRs of the quick call of a load: itemLimit || 100
DefaultQuickPRs == 100
QuickMaxPRs(itemLimit) ==
  IF itemLimit = NoLimit THEN DefaultQuickPRs ELSE itemLimit

FreeIds(tks) == {id \in 1..MaxTasks : tks[id].kind = "none"}
Spawn(tks, t) ==
  IF FreeIds(tks) = {} THEN tks
  ELSE [tks EXCEPT ![CHOOSE i \in FreeIds(tks) : \A j \in FreeIds(tks) : i <= j] = t]
Finish(tks, id) == [tks EXCEPT ![id] = NoTask]
At(tks, id, pc) == [tks EXCEPT ![id].pc = pc]

\* the provider, the client's cache and the suspended functions, with the
\* remote repository as it is in this turn
World(c, cch, tks) ==
  [ctx |-> c, cache |-> cch, tasks |-> tks, remote |-> input, ok |-> TRUE]

\* the time Date.now() shows at a lookup of key: within the life of the
\* entry, or past its expiry
ClockRead(cch, key, expired) ==
  IF expired /\ key \in DOMAIN cch THEN Max(now, cch[key].expiry + 1) ELSE now

\* clearRepoData, in a closure that holds owner and repo
clearRepoData(c, cch, owner, repo) ==
  [ctx |-> [c EXCEPT !.currentRepo = Null, !.releases = NoReleases,
                     !.pullRequests = NoList, !.issues = NoData,
                     !.issuesLabelled = 0, !.reloadOwed = 0,
                     !.labels = NoData, !.milestones = NoData,
                     !.issueTypes = NoData, !.reviewStatuses = NoList,
                     !.shouldLoadRepo = FALSE,
                     !.storedOwner = "", !.storedRepo = ""],
   cache |-> IF owner # "" /\ repo # "" THEN clearRepoCache(cch, owner, repo)
             ELSE cch]

\* the effect on item-limit changes
ItemLimitEffect(c) ==
  IF c.currentRepo # Null /\ c.owner # "" /\ c.repo # ""
     /\ c.itemLimit # c.lastUsedItemLimit
    THEN [c EXCEPT !.lastUsedItemLimit = c.itemLimit, !.shouldLoadRepo = TRUE]
    ELSE c

\* the guard of the load effect
LoadEffectFires(c) ==
  c.shouldLoadRepo /\ ~c.loading /\ c.owner # "" /\ c.repo # ""

\* the effects after a render: the item-limit effect, then the load effect,
\* which starts a load up to its first await (getRepository); the load keeps
\* the itemLimit of the render that started it.  reloadFor, sent and
\* gotIssues are history, kept for the claims: the label change the load
\* was wanted for, how many label changes the remote had made when the
\* getIssues request of the load was sent, and how many of them the issues
\* it received show
NotYet == -1
RunEffects(w) ==
  LET c == ItemLimitEffect(w.ctx) IN
  IF LoadEffectFires(c)
    THEN [w EXCEPT
            !.ctx = [c EXCEPT !.shouldLoadRepo = FALSE, !.loading = TRUE,
                              !.error = "", !.limitChanged = FALSE,
                              !.selectPending = FALSE, !.reloadOwed = 0],
            !.tasks = Spawn(w.tasks,
                        [kind |-> "load", owner |-> c.owner, repo |-> c.repo,
                         pc |-> "getRepository", enhancedReleases |-> FALSE,
                         itemLimit |-> c.itemLimit, reloadFor |-> c.reloadOwed,
                         sent |-> NotYet, gotIssues |-> NotYet]),
            !.ok = w.ok /\ FreeIds(w.tasks) # {}]
    ELSE [w EXCEPT !.ctx = c]

\* a handler or continuation leaves the world w
Commit(w) ==
  LET r == RunEffects(w) IN
  /\ r.ok
  /\ ctx' = r.ctx
  /\ cache' = r.cache
  /\ tasks' = r.tasks
  /\ input' = r.remote
  /\ UNCHANGED <<lastSet, call, ret>>

\* getPRReviewStatuses(owner, repo) called at time t: answered from the
\* cached pull requests, or else a full fetch that the task `id` awaits at
\* `pc`; then `next`
ReviewStatusesCall(w, id, owner, repo, t, next) ==
  LET look == getCachedItem(w.cache, PRsKey(owner, repo, "all", ""), t) IN
  IF look.hit
    THEN [w EXCEPT !.ctx.reviewStatuses = look.data, !.cache = look.cache,
                   !.tasks = IF next = "done" THEN Finish(w.tasks, id)
                             ELSE At(w.tasks, id, next)]
    ELSE [w EXCEPT !.cache = look.cache,
                   !.tasks = At(w.tasks, id, "getPRReviewStatuses")]

\* the background function suspended at pc; selectedAtStart is history, kept
\* for the claims: whether its repository was the selected one when it began
BackgroundTask(c, owner, repo, pc) ==
  [kind |-> "background", owner |-> owner, repo |-> repo, pc |-> pc,
   selectedAtStart |-> (c.owner = owner /\ c.repo = repo)]

\* the background async function of a load: getPullRequests(owner, repo)
\* called at time t1, getPRReviewStatuses at t2
Background(w, owner, repo, t1, t2) ==
  LET look == getCachedItem(w.cache, PRsKey(owner, repo, "all", ""), t1) IN
  IF look.hit
    THEN LET look2 == getCachedItem(look.cache, PRsKey(owner, repo, "all", ""), t2)
         IN IF look2.hit
              THEN [w EXCEPT !.ctx.pullRequests = look.data,
                             !.ctx.reviewStatuses = look2.data,
                             !.cache = look2.cache]
              ELSE [w EXCEPT !.ctx.pullRequests = look.data,
                             !.cache = look2.cache,
                             !.tasks = Spawn(w.tasks,
                                 BackgroundTask(w.ctx, owner, repo,
                                                "getPRReviewStatuses")),
                             !.ok = FreeIds(w.tasks) # {}]
    ELSE [w EXCEPT !.cache = look.cache,
                   !.tasks = Spawn(w.tasks,
                       BackgroundTask(w.ctx, owner, repo, "getPullRequests")),
                   !.ok = FreeIds(w.tasks) # {}]

\* whether the remote serves the plain lists (releases, milestones, labels,
\* issues) or fails them
ListsServed == ~input.listsFail

\* the load in task id has the issues (a list fetched from its repository
\* that shows `labelled` label changes): setIssues, the association with
\* the releases, which may throw, then the call of getLabels
IssuesArrive(w, id, labelled) ==
  LET t == w.tasks[id]
      name == FullName(t.owner, t.repo)
      c == [w.ctx EXCEPT !.issues = name, !.issuesLabelled = labelled]
  IN IF w.remote.throws /\ t.enhancedReleases
       THEN LET r == clearRepoData([c EXCEPT !.error = LoadError], w.cache,
                                   t.owner, t.repo)
            IN [w EXCEPT !.ctx = [r.ctx EXCEPT !.loading = FALSE],
                         !.cache = r.cache, !.tasks = Finish(w.tasks, id)]
       ELSE [w EXCEPT
               !.ctx = [c EXCEPT !.releases = IF t.enhancedReleases
                                              THEN [from |-> name, created |-> FALSE]
                                              ELSE @],
               !.tasks = [w.tasks EXCEPT ![id].pc = "getLabels",
                                         ![id].gotIssues = labelled]]

\* the load in task id, when it has come to getIssues: the client looks the
\* list up (the clock read as by ClockRead); on a hit the load goes on in
\* this turn, else the request is sent
GetIssuesCall(w, id, expired) ==
  IF w.tasks[id].kind = "load" /\ w.tasks[id].pc = "getIssues"
    THEN LET t == w.tasks[id]
             key == IssuesKey(t.owner, t.repo, "all", "")
             look == getCachedItem(w.cache, key, ClockRead(w.cache, key, expired))
         IN IF look.hit
              THEN IssuesArrive([w EXCEPT !.cache = look.cache], id, look.data)
              ELSE [w EXCEPT !.cache = look.cache,
                             !.tasks = [w.tasks EXCEPT
                                          ![id].sent = w.remote.labelled]]
    ELSE w

\* the task id resumes: its network call has returned
IsAt(id, kind, pc) ==
  /\ tasks[id].kind = kind
  /\ tasks[id].pc = pc
  /\ now' = now

\* a call of the user interface, some time after the previous one
UserEvent ==
  /\ now < MaxEvents
  /\ now' = now + 1
Here == World(ctx, cache, tasks)

\* fetchRepoData(ownerName, repoName); the user is authenticated
FetchRepoData(ownerName, repoName) ==
  /\ UserEvent
  /\ ownerName # "" /\ repoName # ""
  /\ Commit([Here EXCEPT !.ctx.owner = ownerName, !.ctx.repo = repoName,
                      !.ctx.shouldLoadRepo = TRUE,
                      !.ctx.cleared = FALSE, !.ctx.selectPending = TRUE])

\* clearRepoData() from the navbar
ClearRepoData ==
  /\ UserEvent
  /\ LET r == clearRepoData(ctx, cache, ctx.owner, ctx.repo) IN
     Commit(World([r.ctx EXCEPT !.limitChanged = FALSE, !.cleared = TRUE,
                                !.selectPending = FALSE],
                  r.cache, tasks))

\* the itemLimitChanged event: setItemLimit, then the effect that restores
\* the stored repository and the item-limit effect of the same render
ItemLimitChanged(limit) ==
  /\ UserEvent
  /\ limit # ctx.itemLimit
  /\ LET stored == ctx.storedRepo # "" /\ ctx.storedOwner # ""
         changed == ctx.currentRepo # Null /\ ctx.owner # "" /\ ctx.repo # ""
                    /\ limit # ctx.lastUsedItemLimit
         c == [ctx EXCEPT
                 !.itemLimit = limit,
                 !.repo = IF stored THEN ctx.storedRepo ELSE @,
                 !.owner = IF stored THEN ctx.storedOwner ELSE @,
                 !.lastUsedItemLimit = IF stored \/ changed THEN limit ELSE @,
                 !.shouldLoadRepo = @ \/ stored \/ changed,
                 !.limitChanged = @ \/ ctx.currentRepo # Null]
     IN Commit(World(c, cache, tasks))

\* a load that goes on to the releases whatever getRepository returned
GetRepositoryReturns_goesOn(id, ok) ==
  /\ IsAt(id, "load", "getRepository")
  /\ LET t == tasks[id] IN
     Commit(World(IF ok THEN [ctx EXCEPT !.currentRepo = FullName(t.owner, t.repo),
                                         !.storedRepo = t.repo,
                                         !.storedOwner = t.owner]
                  ELSE [ctx EXCEPT !.error = FetchFailed],
                  cache, At(tasks, id, "getReleases")))

\* the load: getRepository returns
GetRepositoryReturns(id, ok) ==
  /\ IsAt(id, "load", "getRepository")
  /\ LET t == tasks[id] IN
     IF ok
       THEN Commit(World([ctx EXCEPT !.currentRepo = FullName(t.owner, t.repo),
                                     !.storedRepo = t.repo,
                                     !.storedOwner = t.owner],
                         cache, At(tasks, id, "getReleases")))
       ELSE LET r == clearRepoData([ctx EXCEPT !.error = FetchFailed], cache,
                                   t.owner, t.repo)
            IN Commit(World([r.ctx EXCEPT !.loading = FALSE], r.cache,
                            Finish(tasks, id)))

GetReleasesReturns(id) ==
  /\ IsAt(id, "load", "getReleases")
  /\ LET t == tasks[id]
         ok == ListsServed
     IN
     Commit(World(
       IF ok THEN [ctx EXCEPT !.releases = [from |-> FullName(t.owner, t.repo),
                                            created |-> FALSE]]
       ELSE ctx,
       cache,
       [tasks EXCEPT ![id].pc = "getMilestones", ![id].enhancedReleases = ok]))

GetMilestonesReturns(id) ==
  /\ IsAt(id, "load", "getMilestones")
  /\ LET t == tasks[id]
         ok == ListsServed
     IN
     Commit(World(
       IF ok THEN [ctx EXCEPT !.milestones = FullName(t.owner, t.repo)] ELSE ctx,
       cache, At(tasks, id, "getIssueTypes")))

\* getIssueTypes returns; the load calls the quick getPullRequests, which
\* looks the list up at time t1: on a hit the load goes on in this turn, to
\* getPRReviewStatuses (at time t2) and, when that is a hit too, to
\* getIssues
GetIssueTypesReturns(id, expired1, expired2, expired3) ==
  /\ IsAt(id, "load", "getIssueTypes")
  /\ LET t == tasks[id]
         ok == ListsServed
         key == PRsKey(t.owner, t.repo, "all", "")
         c == IF ok THEN [ctx EXCEPT !.issueTypes = FullName(t.owner, t.repo)]
              ELSE ctx
         t1 == ClockRead(cache, key, expired1)
         look == getCachedItem(cache, key, t1)
         t2 == ClockRead(look.cache, key, expired2)
     IN /\ expired1 => ~expired2
        /\ IF look.hit
             THEN \E w1 \in {World([c EXCEPT !.pullRequests = look.data,
                                              !.reviewStatuses = look.data],
                                    look.cache, tasks)} :
                  \E w2 \in {ReviewStatusesCall(w1, id, t.owner, t.repo, t2,
                                                "getIssues")} :
                  \E w3 \in {GetIssuesCall(w2, id, expired3)} : Commit(w3)
             ELSE /\ ~expired3
                  /\ Commit(World(c, look.cache,
                                  At(tasks, id, "getPullRequests")))

\* the quick getPullRequests returns from the network; on success the load
\* starts the background function (its lookups at times t1 and t2) and goes
\* on to getIssues
QuickPullRequestsReturn(id, ok, expired1, expired2, expired3) ==
  /\ IsAt(id, "load", "getPullRequests")
  /\ LET t == tasks[id]
         key == PRsKey(t.owner, t.repo, "all", "")
         simplePRs == QuickList(t.owner, t.repo, QuickMaxPRs(t.itemLimit))
         cached == setCacheItem(cache, key, simplePRs, QuickPRsExpiry, now)
     IN IF ok
          THEN /\ expired1 => ~expired2
               /\ \E w1 \in {World([ctx EXCEPT !.pullRequests = simplePRs,
                                                !.reviewStatuses = simplePRs],
                                     cached, At(tasks, id, "getIssues"))} :
                  \E w2 \in {Background(w1, t.owner, t.repo,
                                        ClockRead(cached, key, expired1),
                                        ClockRead(cached, key, expired2))} :
                  \E w3 \in {GetIssuesCall(w2, id, expired3)} : Commit(w3)
          ELSE /\ ~expired1 /\ ~expired2
               /\ Commit(GetIssuesCall(
                    World(ctx, cache, At(tasks, id, "getIssues")),
                    id, expired3))

\* the full fetch of getPRReviewStatuses, awaited by the load, returns
ReviewStatusesReturn(id, ok, expired) ==
  /\ IsAt(id, "load", "getPRReviewStatuses")
  /\ LET t == tasks[id]
         full == FullList(t.owner, t.repo)
     IN IF ok
          THEN Commit(GetIssuesCall(World([ctx EXCEPT !.reviewStatuses = full],
                 setCacheItem(cache, PRsKey(t.owner, t.repo, "all", ""), full,
                              DefaultCacheExpiry, now),
                 At(tasks, id, "getIssues")), id, expired))
          ELSE Commit(GetIssuesCall(
                 World(ctx, cache, At(tasks, id, "getIssues")), id, expired))

\* getIssues returns from the network with the issues as the remote had
\* them at some time since the request was sent (they show `labelled` label
\* changes); the client caches them for 30 minutes
GetIssuesReturns(id, labelled) ==
  /\ IsAt(id, "load", "getIssues")
  /\ LET t == tasks[id] IN
     /\ labelled \in t.sent..input.labelled
     /\ IF ListsServed
          THEN Commit(IssuesArrive(
                 World(ctx,
                       setCacheItem(cache, IssuesKey(t.owner, t.repo, "all", ""),
                                    labelled, IssuesExpiry, now),
                       tasks),
                 id, labelled))
          ELSE /\ labelled = t.sent
               /\ Commit(World(ctx, cache, At(tasks, id, "getLabels")))

\* a load that ends without its finally
GetLabelsReturns_noFinally(id) ==
  /\ IsAt(id, "load", "getLabels")
  /\ LET t == tasks[id]
         ok == ListsServed
         c == IF ok THEN [ctx EXCEPT !.labels = FullName(t.owner, t.repo)] ELSE ctx
     IN Commit(World(c, cache, Finish(tasks, id)))

\* getLabels returns and the load ends: finally setLoading(false)
GetLabelsReturns(id) ==
  /\ IsAt(id, "load", "getLabels")
  /\ LET t == tasks[id]
         ok == ListsServed
         c == IF ok THEN [ctx EXCEPT !.labels = FullName(t.owner, t.repo)] ELSE ctx
     IN Commit(World([c EXCEPT !.loading = FALSE], cache, Finish(tasks, id)))

\* the background getPullRequests returns from the network; on success it
\* sets the pull requests and calls getPRReviewStatuses (lookup at time t1)
BackgroundPullRequestsReturn(id, ok, expired) ==
  /\ IsAt(id, "background", "getPullRequests")
  /\ LET t == tasks[id]
         key == PRsKey(t.owner, t.repo, "all", "")
         full == FullList(t.owner, t.repo)
         cached == setCacheItem(cache, key, full, DefaultCacheExpiry, now)
     IN IF ok
          THEN Commit(ReviewStatusesCall(
                 World([ctx EXCEPT !.pullRequests = full], cached, tasks),
                 id, t.owner, t.repo, ClockRead(cached, key, expired), "done"))
          ELSE /\ ~expired
               /\ Commit(World(ctx, cache, Finish(tasks, id)))

\* the full fetch of the background getPRReviewStatuses returns
BackgroundStatusesReturn(id, ok) ==
  /\ IsAt(id, "background", "getPRReviewStatuses")
  /\ LET t == tasks[id]
         full == FullList(t.owner, t.repo)
     IN IF ok
          THEN Commit(World([ctx EXCEPT !.reviewStatuses = full],
                 setCacheItem(cache, PRsKey(t.owner, t.repo, "all", ""), full,
                              DefaultCacheExpiry, now),
                 Finish(tasks, id)))
          ELSE Commit(World(ctx, cache, Finish(tasks, id)))

\* createNewRelease, updateReleasePhase, addLabelToItem, removeLabelFromItem
\* up to their await: setLoading(true)
StartMutation(kind) ==
  /\ UserEvent
  /\ FreeIds(tasks) # {}
  /\ Commit(World([ctx EXCEPT !.loading = TRUE], cache,
                  Spawn(tasks, [kind |-> kind, owner |-> ctx.owner,
                                repo |-> ctx.repo, pc |-> "request"])))

\* ... and from their await on: the state change c on success, setError
\* otherwise, finally setLoading(false)
EndMutation(id, kind, ok, c) ==
  /\ tasks[id].pc = "request"
  /\ Commit(World([(IF ok THEN c ELSE [ctx EXCEPT !.error = OpError])
                     EXCEPT !.loading = FALSE],
                  cache, Finish(tasks, id)))

CreateNewRelease ==
  /\ ctx.currentRepo # Null
  /\ StartMutation("createNewRelease")

CreateReleaseReturns(id, ok) ==
  /\ IsAt(id, "createNewRelease", "request")
  /\ EndMutation(id, "createNewRelease", ok,
                 [ctx EXCEPT !.releases.created = TRUE])

UpdateReleasePhase ==
  /\ ctx.releases # NoReleases
  /\ StartMutation("updateReleasePhase")

UpdateReleaseReturns(id, ok) ==
  /\ IsAt(id, "updateReleasePhase", "request")
  /\ EndMutation(id, "updateReleasePhase", ok, ctx)

\* addLabelToItem and removeLabelFromItem differ in the request they send
AddLabelToItem ==
  /\ ctx.pullRequests # NoList \/ ctx.issues # NoData
  /\ StartMutation("labelRequest")

RemoveLabelFromItem ==
  /\ ctx.pullRequests # NoList \/ ctx.issues # NoData
  /\ StartMutation("labelRequest")

\* addLabelToIssue or removeLabelFromIssue returns: on success the remote
\* has made the change and the client has dropped the cached issues of the
\* repository, and the provider asks for a reload
LabelRequestReturns(id, ok) ==
  /\ IsAt(id, "labelRequest", "request")
  /\ LET t == tasks[id]
         labelled == input.labelled + 1
     IN IF ok
          THEN Commit([World([ctx EXCEPT !.shouldLoadRepo = TRUE,
                                         !.reloadOwed = labelled,
                                         !.loading = FALSE],
                             MapDelete(cache, IssuesKey(t.owner, t.repo, "all", "")),
                             Finish(tasks, id))
                       EXCEPT !.remote.labelled = labelled])
          ELSE EndMutation(id, "labelRequest", FALSE, ctx)

NextRepo ==
  \/ \E p \in Repositories : FetchRepoData(p[1], p[2])
  \/ ClearRepoData
  \/ \E limit \in ItemLimits : ItemLimitChanged(limit)
  \/ \E id \in 1..MaxTasks, ok \in BOOLEAN : GetRepositoryReturns(id, ok)
  \/ \E id \in 1..MaxTasks : GetReleasesReturns(id)
  \/ \E id \in 1..MaxTasks : GetMilestonesReturns(id)
  \/ \E id \in 1..MaxTasks, expired1 \in BOOLEAN, expired2 \in BOOLEAN,
        expired3 \in BOOLEAN :
        GetIssueTypesReturns(id, expired1, expired2, expired3)
  \/ \E id \in 1..MaxTasks, ok \in BOOLEAN, expired1 \in BOOLEAN,
        expired2 \in BOOLEAN, expired3 \in BOOLEAN :
        QuickPullRequestsReturn(id, ok, expired1, expired2, expired3)
  \/ \E id \in 1..MaxTasks, ok \in BOOLEAN, expired \in BOOLEAN :
        ReviewStatusesReturn(id, ok, expired)
  \/ \E id \in 1..MaxTasks, labelled \in 0..MaxEvents :
        GetIssuesReturns(id, labelled)
  \/ \E id \in 1..MaxTasks : GetLabelsReturns(id)
  \/ \E id \in 1..MaxTasks, ok \in BOOLEAN, expired \in BOOLEAN :
        BackgroundPullRequestsReturn(id, ok, expired)
  \/ \E id \in 1..MaxTasks, ok \in BOOLEAN : BackgroundStatusesReturn(id, ok)
  \/ CreateNewRelease
  \/ \E id \in 1..MaxTasks, ok \in BOOLEAN : CreateReleaseReturns(id, ok)
  \/ UpdateReleasePhase
  \/ \E id \in 1..MaxTasks, ok \in BOOLEAN : UpdateReleaseReturns(id, ok)
  \/ AddLabelToItem
  \/ RemoveLabelFromItem
  \/ \E id \in 1..MaxTasks, ok \in BOOLEAN : LabelRequestReturns(id, ok)

InitRepo ==
  /\ now = 0
  /\ cache = EmptyMap
  /\ lastSet = EmptyMap
  /\ input \in {[listsFail |-> FALSE, throws |-> FALSE, labelled |-> 0],
                [listsFail |-> TRUE, throws |-> FALSE, labelled |-> 0],
                [listsFail |-> FALSE, throws |-> TRUE, labelled |-> 0]}
  /\ call = Idle
  /\ ret = [op |-> "init"]
  /\ ctx = InitialContext
  /\ tasks = NoTasks

SpecRepo == InitRepo /\ [][NextRepo]_vars

\* the background function in slot id resumes in this step
BackgroundResumes(id) ==
  /\ tasks[id].kind = "background"
  /\ tasks'[id].kind # "background" \/ tasks'[id].pc # tasks[id].pc

\* C8: a background fetch that began for the selected repository and whose
\* result arrives after another repository was selected changes neither
\* the pull requests nor the review statuses.
C8_StaleGuard ==
  [][\A id \in 1..MaxTasks :
       (/\ BackgroundResumes(id)
        /\ tasks[id].selectedAtStart
        /\ \/ ctx'.pullRequests # ctx.pullRequests
           \/ ctx'.reviewStatuses # ctx.reviewStatuses)
       => (ctx.owner = tasks[id].owner /\ ctx.repo = tasks[id].repo)]_vars

Loads == {id \in 1..MaxTasks : tasks[id].kind = "load"}

\* C9: at most one load is in progress at any time.
C9_SingleLoad == Cardinality(Loads) <= 1

\* C10: while the error of a failed load stands (until the next load resets
\* it), currentRepo is null and no list of the snapshot holds fetched data.
C10_FailedIsEmpty ==
  ctx.error \in {FetchFailed, LoadError} =>
    /\ ctx.currentRepo = Null
    /\ ctx.releases.from = NoData
    /\ ctx.pullRequests = NoList
    /\ ctx.issues = NoData
    /\ ctx.labels = NoData
    /\ ctx.milestones = NoData
    /\ ctx.issueTypes = NoData
    /\ ctx.reviewStatuses = NoList

\* C11: a change of the item limit made while a repository is loaded is not
\* dropped: from the change until a load starts (or the user unloads the
\* repository), the request to load (shouldLoadRepo) stands, also when the
\* change arrives during a load.
C11_LimitChangeReloads == ctx.limitChanged => ctx.shouldLoadRepo

\* the quick getPullRequests call of the load in slot id is answered from
\* the cache in this step
QuickCallFromCache(id) ==
  /\ tasks[id].kind = "load"
  /\ tasks[id].pc = "getIssueTypes"
  /\ tasks'[id].kind # "load"
     \/ tasks'[id].pc \notin {"getIssueTypes", "getPullRequests"}

\* C12: the quick list that a load puts into the snapshot was cut to the cap
\* of that load (the item limit in force when it started, 100 without a
\* limit): the reload after a change from L1 to L2 never takes a list that
\* was retrieved and cached under L1.
C12_ReloadUsesNewLimit ==
  [][\A id \in 1..MaxTasks :
       (QuickCallFromCache(id) /\ ctx'.pullRequests.detail = "quick")
       => ctx'.pullRequests.cap = QuickMaxPRs(tasks[id].itemLimit)]_vars

\* C13: a list that the skipReviewData branch produced is returned only to
\* a call with skipReviewData, flagged incomplete; a call without
\* skipReviewData returns no status that this branch made up.
C13_FastPathFlagged ==
  (ret.op = "getPullRequests" /\ "pullRequests" \in DOMAIN ret) =>
    \A k \in 1..Len(ret.pullRequests) :
      ret.pullRequests[k].how = "synthetic" =>
        ret.incomplete /\ ret.skipReviewData

(***************************************************************************)
(* getLabels and addLabelToIssue of the client for the repository "o/r".   *)
(* The remote holds input.n labels and, when input.hasNew, the label that  *)
(* addLabelToIssue is called with; a list of labels is kept as its size    *)
(* and whether it holds that label.  call[s] is the call in slot s, at the *)
(* request it awaits; the pages of a label list are one request here.      *)
(* Time is in minutes.  lastSet is history: the list and the end of life   *)
(* of the entry that the last completed fetch of the labels wrote;         *)
(* call[s].touched is history too: the call has written or removed an      *)
(* entry of the cache.                                                     *)
(***************************************************************************)
MaxCalls == 2
LabelsExpiry == 60

\* `if (cachedData)` on a cached array: an empty array is false
Truthy_emptyIsFalsy(list) == list.n > 0 \/ list.hasNew

\* `if (cachedData)` on a cached array: every array is true, also an empty one
Truthy(list) == TRUE

\* getLabels up to its first request, at time t: the cached list, if any
CachedLabels(c, t) ==
  LET r == getCachedItem(c, LabelsKey("o", "r"), t)
  IN [hit |-> r.hit /\ Truthy(r.data), data |-> r.data, cache |-> r.cache]

\* addLabelToIssue from the point where it holds the labels: createLabel
\* when none has the name, else addLabels
AfterLabels(labels) ==
  [pc |-> IF labels.hasNew THEN "addLabels" ELSE "createLabel",
   op |-> "addLabelToIssue", created |-> ~labels.hasNew, touched |-> FALSE]

\* getLabels(owner, repo), or addLabelToIssue(owner, repo, n, name) with the
\* getLabels call it begins with
StartCall(s, op) ==
  /\ call[s] = Idle
  /\ LET cachedData == CachedLabels(cache, now)
     IN /\ cache' = cachedData.cache
        /\ IF ~cachedData.hit
             THEN /\ call' = [call EXCEPT ![s] =
                                [pc |-> "listLabelsForRepo", op |-> op,
                                 created |-> FALSE,
                                 touched |-> cachedData.cache # cache]]
                  /\ ret' = [op |-> op, pending |-> TRUE]
           ELSE IF op = "getLabels"
             THEN /\ call' = call
                  /\ ret' = [op |-> op, success |-> TRUE, fromCache |-> TRUE,
                             labels |-> cachedData.data]
           ELSE /\ call' = [call EXCEPT ![s] = AfterLabels(cachedData.data)]
                /\ ret' = [op |-> op, pending |-> TRUE]
  /\ UNCHANGED <<now, lastSet, input, ctx, tasks>>

GetLabels(s) ==
  /\ s \in 1..MaxCalls
  /\ StartCall(s, "getLabels")

AddLabelToIssue(s) ==
  /\ s \in 1..MaxCalls
  /\ StartCall(s, "addLabelToIssue")

\* the label list arrives (or the request fails): getLabels caches it and
\* returns; addLabelToIssue goes on with it
ListLabelsReturns(s, ok) ==
  /\ call[s] # Idle
  /\ call[s].pc = "listLabelsForRepo"
  /\ LET allLabels == [n |-> input.n, hasNew |-> input.hasNew]
         op == call[s].op
     IN IF ~ok
          THEN /\ call' = [call EXCEPT ![s] = Idle]
               /\ ret' = [op |-> op, success |-> FALSE, created |-> FALSE]
               /\ UNCHANGED <<cache, lastSet>>
          ELSE /\ cache' = setCacheItem(cache, LabelsKey("o", "r"), allLabels,
                                        LabelsExpiry, now)
               /\ lastSet' = MapSet(lastSet, LabelsKey("o", "r"),
                                    [data |-> allLabels,
                                     expires |-> now + LabelsExpiry])
               /\ IF op = "getLabels"
                    THEN /\ call' = [call EXCEPT ![s] = Idle]
                         /\ ret' = [op |-> op, success |-> TRUE,
                                    fromCache |-> FALSE, labels |-> allLabels]
                    ELSE /\ call' = [call EXCEPT ![s] =
                                       [AfterLabels(allLabels)
                                          EXCEPT !.touched = TRUE]]
                         /\ ret' = [op |-> op, pending |-> TRUE]
  /\ UNCHANGED <<now, input, ctx, tasks>>

\* createLabel returns: the remote creates the label, or refuses a name
\* that is taken (addLabelToIssue returns "Failed to create label")
CreateLabelReturns(s) ==
  /\ call[s] # Idle
  /\ call[s].pc = "createLabel"
  /\ IF input.hasNew
       THEN /\ call' = [call EXCEPT ![s] = Idle]
            /\ ret' = [op |-> "addLabelToIssue", success |-> FALSE,
                       created |-> TRUE]
            /\ input' = input
       ELSE /\ call' = [call EXCEPT ![s].pc = "addLabels"]
            /\ ret' = [op |-> "addLabelToIssue", pending |-> TRUE]
            /\ input' = [input EXCEPT !.hasNew = TRUE]
  /\ UNCHANGED <<now, cache, lastSet, ctx, tasks>>

\* addLabels returns: the cached issue list is dropped and the call returns
AddLabelsReturns(s, ok) ==
  /\ call[s] # Idle
  /\ call[s].pc = "addLabels"
  /\ call' = [call EXCEPT ![s] = Idle]
  /\ cache' = IF ok THEN MapDelete(cache, IssuesKey("o", "r", "all", ""))
              ELSE cache
  /\ ret' = [op |-> "addLabelToIssue", success |-> ok,
             created |-> call[s].created]
  /\ UNCHANGED <<now, lastSet, input, ctx, tasks>>

\* a minute passes, or the life of a label list
TimePasses(d) ==
  /\ d = 1 => now % LabelsExpiry < MaxTime
  /\ now + d <= 2 * LabelsExpiry + MaxTime
  /\ now' = now + d
  /\ ret' = [op |-> "tick"]
  /\ UNCHANGED <<cache, lastSet, input, call, ctx, tasks>>

NextLabels ==
  \/ \E s \in 1..MaxCalls : GetLabels(s)
  \/ \E s \in 1..MaxCalls : AddLabelToIssue(s)
  \/ \E s \in 1..MaxCalls, ok \in BOOLEAN : ListLabelsReturns(s, ok)
  \/ \E s \in 1..MaxCalls : CreateLabelReturns(s)
  \/ \E s \in 1..MaxCalls, ok \in BOOLEAN : AddLabelsReturns(s, ok)
  \/ \E d \in {1, LabelsExpiry} : TimePasses(d)
  \/ ClearRepoCache("o", "r")

InitLabels ==
  /\ now = 0
  /\ cache = EmptyMap
  /\ lastSet = EmptyMap
  /\ input \in [n : {0, 1, PageSize}, hasNew : BOOLEAN]
  /\ call = [s \in 1..MaxCalls |-> Idle]
  /\ ret = [op |-> "init"]
  /\ ctx = InitialContext
  /\ tasks = NoTasks

SpecLabels == InitLabels /\ [][NextLabels]_vars

\* a call in slot s sends the request `pc` in this step
Sends(s, pc) ==
  /\ call'[s] # Idle
  /\ call'[s].pc = pc
  /\ call[s] = Idle \/ call[s].pc # pc

\* the last completed fetch of the labels is at most an hour old and its
\* entry was not evicted
LabelsFresh ==
  /\ LabelsKey("o", "r") \in DOMAIN lastSet
  /\ now <= lastSet[LabelsKey("o", "r")].expires

\* C14: once the labels of a repository were fetched, a getLabels call made
\* within the hour sends no request and returns that list, and a call made
\* after the hour, or after the entry was evicted, sends a request; for
\* every number of labels, zero too.
C14_LabelsCached ==
  [][/\ LabelsFresh => \A s \in 1..MaxCalls : ~Sends(s, "listLabelsForRepo")
     /\ (ret' # ret /\ ret'.op = "getLabels" /\ "fromCache" \in DOMAIN ret'
         /\ ret'.fromCache)
        => (LabelsFresh /\ ret'.labels = lastSet[LabelsKey("o", "r")].data)]_vars

\* a repository without labels: getLabels is answered from the cache in the
\* last minute of the hour, after an earlier entry had expired
C14_Witness ==
  /\ ret.op = "getLabels"
  /\ "fromCache" \in DOMAIN ret
  /\ ret.fromCache
  /\ ret.labels = [n |-> 0, hasNew |-> FALSE]
  /\ now = lastSet[LabelsKey("o", "r")].expires
  /\ now > LabelsExpiry

\* C19: addLabelToIssue sends a create-label request exactly when the label
\* does not exist on the repository at that moment: it creates no label
\* that exists and attaches none that does not.
C19_CreateIffAbsent ==
  [][\A s \in 1..MaxCalls :
       /\ Sends(s, "createLabel") => ~input.hasNew
       /\ Sends(s, "addLabels") => input'.hasNew]_vars

(***************************************************************************)
(* getPRReviewStatuses over the pull requests that getPullRequests gave:   *)
(* input.statuses holds the reviewStatus of each, in the order fetched ("" *)
(* for a pull request without one).                                        *)
(***************************************************************************)
MaxFetched == 4

statusOrder ==
  <<"APPROVED", "CHANGES_REQUESTED", "REVIEW_REQUIRED", "NO_REVIEW",
    "COMMENTED", "DRAFT">>

\* statuses that statusOrder does not hold, as localeCompare orders them
OtherStatuses == <<"BLOCKED", "QUEUED">>

\* Array.prototype.indexOf, counted from 0; -1 when absent
IndexOf(seq, x) ==
  IF \E i \in 1..Len(seq) : seq[i] = x
    THEN (CHOOSE i \in 1..Len(seq) :
            seq[i] = x /\ \A j \in 1..(i - 1) : seq[j] # x) - 1
    ELSE -1

\* a comparator that orders every status by name
CompareStatuses_byName(a, b) ==
  IndexOf(<<"APPROVED", "BLOCKED", "CHANGES_REQUESTED", "COMMENTED", "DRAFT",
            "NO_REVIEW", "QUEUED", "REVIEW_REQUIRED">>, a)
  - IndexOf(<<"APPROVED", "BLOCKED", "CHANGES_REQUESTED", "COMMENTED", "DRAFT",
              "NO_REVIEW", "QUEUED", "REVIEW_REQUIRED">>, b)

\* the comparator given to sort
CompareStatuses(a, b) ==
  LET indexA == IndexOf(statusOrder, a)
      indexB == IndexOf(statusOrder, b)
  IN IF indexA >= 0 /\ indexB >= 0 THEN indexA - indexB
     ELSE IF indexA >= 0 THEN -1
     ELSE IF indexB >= 0 THEN 1
     ELSE IndexOf(OtherStatuses, a) - IndexOf(OtherStatuses, b)

\* the Set of the statuses seq[i..], added to acc in the order met; a
\* pull request without a status adds nothing
RECURSIVE AddStatuses(_, _, _)
AddStatuses(seq, i, acc) ==
  IF i > Len(seq) THEN acc
  ELSE IF seq[i] = "" \/ \E k \in 1..Len(acc) : acc[k] = seq[i]
    THEN AddStatuses(seq, i + 1, acc)
  ELSE AddStatuses(seq, i + 1, Append(acc, seq[i]))

\* Array.prototype.sort with the comparator: each element in turn is put
\* behind the elements already placed that do not come after it
RECURSIVE SortStatuses(_, _, _)
SortStatuses(seq, i, acc) ==
  IF i > Len(seq) THEN acc
  ELSE LET x == seq[i]
           k == Cardinality({j \in 1..Len(acc) :
                               \A m \in 1..j : CompareStatuses(acc[m], x) <= 0})
       IN SortStatuses(seq, i + 1,
            SubSeq(acc, 1, k) \o <<x>> \o SubSeq(acc, k + 1, Len(acc)))

\* getPRReviewStatuses(owner, repo), from the return of its getPullRequests
GetPRReviewStatuses ==
  /\ ret' = IF ~input.ok
              THEN [op |-> "getPRReviewStatuses", success |-> FALSE]
            ELSE [op |-> "getPRReviewStatuses", success |-> TRUE,
                  reviewStatuses |->
                    SortStatuses(AddStatuses(input.statuses, 1, <<>>), 1, <<>>)]
  /\ UNCHANGED <<now, cache, lastSet, input, call, ctx, tasks>>

InitReviewStatuses ==
  /\ now = 0
  /\ cache = EmptyMap
  /\ lastSet = EmptyMap
  /\ \E n \in 0..MaxFetched :
       input \in [statuses : [1..n -> {"", "BLOCKED", "QUEUED"} \cup
                                      {statusOrder[i] : i \in 1..Len(statusOrder)}],
                  ok : BOOLEAN]
  /\ call = Idle
  /\ ret = [op |-> "init"]
  /\ ctx = InitialContext
  /\ tasks = NoTasks

SpecReviewStatuses == InitReviewStatuses /\ [][GetPRReviewStatuses]_vars

\* C15: getPRReviewStatuses returns every status present among the fetched
\* pull requests once, the recognized ones in the order APPROVED,
\* CHANGES_REQUESTED, REVIEW_REQUIRED, NO_REVIEW, COMMENTED, DRAFT and the
\* others behind them by name, whatever the order of the pull requests; for
\* {NO_REVIEW, DRAFT, APPROVED} that is [APPROVED, NO_REVIEW, DRAFT].
C15_StatusOrder ==
  (ret.op = "getPRReviewStatuses" /\ ret.success) =>
    LET present == {input.statuses[k] : k \in 1..Len(input.statuses)} \ {""}
        Present(st) == st \in present
    IN /\ ret.reviewStatuses =
            SelectSeq(<<"APPROVED", "CHANGES_REQUESTED", "REVIEW_REQUIRED",
                        "NO_REVIEW", "COMMENTED", "DRAFT", "BLOCKED", "QUEUED">>,
                      Present)
       /\ present = {"NO_REVIEW", "DRAFT", "APPROVED"}
            => ret.reviewStatuses = <<"APPROVED", "NO_REVIEW", "DRAFT">>

\* pull requests fetched as DRAFT, NO_REVIEW, APPROVED, NO_REVIEW
C15_Witness ==
  /\ ret.op = "getPRReviewStatuses"
  /\ ret.success
  /\ input.statuses = <<"DRAFT", "NO_REVIEW", "APPROVED", "NO_REVIEW">>
  /\ ret.reviewStatuses = <<"APPROVED", "NO_REVIEW", "DRAFT">>

(***************************************************************************)
(* getIssues of the client for the repository "o/r", state "all", no label *)
(* filter.  The issues endpoint holds input.n items, newest first; item j  *)
(* is RemoteItem(j): every third one is a pull request, and the labels of  *)
(* the items run through LabelLists from position input.first.  The labels *)
(* of the repository are those its items carry, and "testing" when         *)
(* input.extra.  call[s] is the call in slot s at the request it awaits;   *)
(* the label lookup of getIssueTypes is one request, answered with the     *)
(* labels of the repository or failing.  Time is in minutes.  `typed` in   *)
(* an issue is history: the classification ran for it.                     *)
(***************************************************************************)
LabelLists ==
  << <<"kind/bug", "priority/p1">>, <<"good-first-issue">>, <<"doc-update">>,
     <<>>, <<"Docs", "BUG">>, <<"New Feature", "help wanted">>,
     <<"question">>, <<"Hotfix", "documentation">> >>

\* String.prototype.toLowerCase left out
ToLowerCase_asIs(str) == str

\* the lower-case letter of each upper-case letter
LowerCaseOf ==
  LET upper == "ABCDEFGHIJKLMNOPQRSTUVWXYZ"
      lower == "abcdefghijklmnopqrstuvwxyz"
  IN [c \in {SubSeq(upper, i, i) : i \in 1..Len(upper)} |->
        LET i == CHOOSE i \in 1..Len(upper) : SubSeq(upper, i, i) = c
        IN SubSeq(lower, i, i)]

\* String.prototype.toLowerCase
RECURSIVE ToLowerCase(_)
ToLowerCase(str) ==
  IF Len(str) = 0 THEN str
  ELSE LET c == SubSeq(str, 1, 1)
       IN (IF c \in DOMAIN LowerCaseOf THEN LowerCaseOf[c] ELSE c)
          \o ToLowerCase(SubSeq(str, 2, Len(str)))

\* String.prototype.includes
Includes(str, part) ==
  \E i \in 1..(Len(str) - Len(part) + 1) :
    SubSeq(str, i, i + Len(part) - 1) = part

\* issue.labels.some(label => label.name.toLowerCase().includes(k)) for one
\* of the keywords k
SomeLabel(labels, keywords) ==
  \E i \in 1..Len(labels) :
    LET name == ToLowerCase(labels[i])
    IN \E k \in keywords : Includes(name, k)

issueTypeKeywords ==
  {"bug", "fix", "error", "feature", "enhancement", "improvement",
   "documentation", "docs", "question", "help", "security", "vulnerability",
   "refactor", "technical debt", "test", "testing"}

\* getIssueTypes on the labels that getLabels gave: those whose name holds
\* one of the issueTypeKeywords
IssueTypeLabels(labels) ==
  {l \in labels :
     LET name == ToLowerCase(l)
     IN \E k \in issueTypeKeywords : Includes(name, k)}

\* a map that looks for a documentation label before a bug label
IssueType_docFirst(labels, typesSuccess, issueTypes) ==
  IF typesSuccess /\ issueTypes # {}
    THEN IF SomeLabel(labels, {"doc"}) THEN "documentation"
         ELSE IF SomeLabel(labels, {"bug", "fix", "error"}) THEN "bug"
         ELSE IF SomeLabel(labels, {"feature", "enhancement", "improvement"})
           THEN "enhancement"
         ELSE IF SomeLabel(labels, {"question", "help"}) THEN "question"
         ELSE "other"
    ELSE "other"

\* the issueType that the map of getIssues gives to an issue
IssueType(labels, typesSuccess, issueTypes) ==
  IF typesSuccess /\ issueTypes # {}
    THEN IF SomeLabel(labels, {"bug", "fix", "error"}) THEN "bug"
         ELSE IF SomeLabel(labels, {"feature", "enhancement", "improvement"})
           THEN "enhancement"
         ELSE IF SomeLabel(labels, {"doc"}) THEN "documentation"
         ELSE IF SomeLabel(labels, {"question", "help"}) THEN "question"
         ELSE "other"
    ELSE "other"

\* item j of the issues endpoint
RemoteItem(j) ==
  [number |-> j, pull_request |-> j % 3 = 0,
   labels |-> LabelLists[((j + input.first) % Len(LabelLists)) + 1]]

\* the labels of the repository
RepoLabels ==
  UNION {{RemoteItem(j).labels[i] : i \in 1..Len(RemoteItem(j).labels)} :
           j \in 1..input.n}
  \cup (IF input.extra THEN {"testing"} ELSE {})

\* getIssues from the sliced list of `items` entries on: the pull requests
\* are filtered out and each issue gets its issueType
EnhancedIssues(items, typesSuccess, issueTypes) ==
  LET allIssues == [j \in 1..items |-> RemoteItem(j)]
      IsIssue(issue) == ~issue.pull_request
      issues == SelectSeq(allIssues, IsIssue)
  IN [i \in 1..Len(issues) |->
        [number |-> issues[i].number,
         pull_request |-> issues[i].pull_request,
         labels |-> issues[i].labels,
         issueType |-> IssueType(issues[i].labels, typesSuccess, issueTypes),
         typed |-> typesSuccess /\ issueTypes # {}]]

\* getIssues(owner, repo, "all", "", {maxIssues}) up to its first request
GetIssues(s, maxIssues) ==
  /\ call[s] = Idle
  /\ LET cachedData == getCachedItem(cache, IssuesKey("o", "r", "all", ""), now)
     IN /\ cache' = cachedData.cache
        /\ IF cachedData.hit
             THEN /\ call' = call
                  /\ ret' = [op |-> "getIssues", success |-> TRUE,
                             maxIssues |-> maxIssues, fromCache |-> TRUE,
                             issues |-> cachedData.data]
             ELSE /\ call' = [call EXCEPT ![s] =
                                [pc |-> "listForRepo", maxIssues |-> maxIssues,
                                 items |-> 0]]
                  /\ ret' = [op |-> "getIssues", pending |-> TRUE]
  /\ UNCHANGED <<now, lastSet, input, ctx, tasks>>

\* the page loop ends: with the list, sliced to maxIssues, or with the
\* failure of page request failAt
ListForRepoReturns(s, failAt) ==
  /\ call[s] # Idle
  /\ call[s].pc = "listForRepo"
  /\ LET r == FetchList(input.n, call[s].maxIssues, FALSE, failAt)
     IN IF r.success
          THEN /\ call' = [call EXCEPT ![s].pc = "getIssueTypes",
                                       ![s].items = r.items]
               /\ ret' = [op |-> "getIssues", pending |-> TRUE]
          ELSE /\ call' = [call EXCEPT ![s] = Idle]
               /\ ret' = [op |-> "getIssues", success |-> FALSE]
  /\ UNCHANGED <<now, cache, lastSet, input, ctx, tasks>>

\* getIssueTypes returns, with the type labels of the repository or with a
\* failure: the issues are classified, cached and returned
IssueTypesReturn(s, typesSuccess) ==
  /\ call[s] # Idle
  /\ call[s].pc = "getIssueTypes"
  /\ LET issueTypes == IF typesSuccess THEN IssueTypeLabels(RepoLabels) ELSE {}
         enhancedIssues == EnhancedIssues(call[s].items, typesSuccess, issueTypes)
     IN /\ cache' = setCacheItem(cache, IssuesKey("o", "r", "all", ""),
                                 enhancedIssues, IssuesExpiry, now)
        /\ ret' = [op |-> "getIssues", success |-> TRUE,
                   maxIssues |-> call[s].maxIssues, fromCache |-> FALSE,
                   issues |-> enhancedIssues]
  /\ call' = [call EXCEPT ![s] = Idle]
  /\ UNCHANGED <<now, lastSet, input, ctx, tasks>>

\* a minute passes, or the life of a cached issue list
MinutesPass(d) ==
  /\ d = 1 => now % IssuesExpiry < MaxTime
  /\ now + d <= IssuesExpiry + MaxTime
  /\ now' = now + d
  /\ ret' = [op |-> "tick"]
  /\ UNCHANGED <<cache, lastSet, input, call, ctx, tasks>>

NextIssues ==
  \/ \E s \in 1..MaxCalls, maxIssues \in {2, DefaultMaxIssues} :
       GetIssues(s, maxIssues)
  \/ \E s \in 1..MaxCalls, failAt \in 0..1 : ListForRepoReturns(s, failAt)
  \/ \E s \in 1..MaxCalls, ok \in BOOLEAN : IssueTypesReturn(s, ok)
  \/ \E d \in {1, IssuesExpiry} : MinutesPass(d)
  \/ ClearRepoCache("o", "r")

InitIssues ==
  /\ now = 0
  /\ cache = EmptyMap
  /\ lastSet = EmptyMap
  /\ \/ input \in [n : {0, 2, 5}, first : {0, 4, 6}, extra : BOOLEAN]
     \/ input = [n |-> DefaultMaxIssues + 1, first |-> 0, extra |-> FALSE]
  /\ call = [s \in 1..MaxCalls |-> Idle]
  /\ ret = [op |-> "init"]
  /\ ctx = InitialContext
  /\ tasks = NoTasks

SpecIssues == InitIssues /\ [][NextIssues]_vars

\* the type that the keyword groups give to a list of label names: that of
\* the first group, in the order bug, enhancement, documentation, question,
\* of which a keyword occurs in a name, and other when there is none
FirstMatch(labels) ==
  LET groups == << [type |-> "bug", keywords |-> {"bug", "fix", "error"}],
                   [type |-> "enhancement",
                    keywords |-> {"feature", "enhancement", "improvement"}],
                   [type |-> "documentation", keywords |-> {"doc"}],
                   [type |-> "question", keywords |-> {"question", "help"}] >>
      hits == {g \in 1..Len(groups) : SomeLabel(labels, groups[g].keywords)}
  IN IF hits = {} THEN "other"
     ELSE groups[CHOOSE g \in hits : \A h \in hits : g <= h].type

\* the examples: ["kind/bug", "priority/p1"] is bug, ["good-first-issue"] is
\* other, a bug label together with a doc label is bug
ExamplesHold(issue) ==
  /\ issue.labels = <<"kind/bug", "priority/p1">> => issue.issueType = "bug"
  /\ issue.labels = <<"good-first-issue">> => issue.issueType = "other"
  /\ issue.labels = <<"Docs", "BUG">> => issue.issueType = "bug"

\* C16 as stated: the issueType of every issue that getIssues returns is the
\* one the keyword groups give to its label names, first match wins.
C16_ByLabelsAlone ==
  (ret.op = "getIssues" /\ "issues" \in DOMAIN ret) =>
    \A i \in 1..Len(ret.issues) :
      /\ ret.issues[i].issueType = FirstMatch(ret.issues[i].labels)
      /\ ExamplesHold(ret.issues[i])

\* C16, amended: when the type-label lookup of the fetch succeeded and found
\* a type label among the labels of the repository, the issueType of every
\* issue that getIssues returns is the one the keyword groups give to its
\* label names, first match wins; otherwise every issue is other.
C16_ByLabelsWhenTypesKnown ==
  (ret.op = "getIssues" /\ "issues" \in DOMAIN ret) =>
    \A i \in 1..Len(ret.issues) :
      IF ret.issues[i].typed
        THEN /\ ret.issues[i].issueType = FirstMatch(ret.issues[i].labels)
             /\ ExamplesHold(ret.issues[i])
        ELSE ret.issues[i].issueType = "other"

\* a fetch with type labels known returns a bug for ["kind/bug",
\* "priority/p1"] and for a bug label with a doc label, and other for
\* ["good-first-issue"]
C16_Witness ==
  /\ ret.op = "getIssues"
  /\ "issues" \in DOMAIN ret
  /\ \E i, j, k \in 1..Len(ret.issues) :
       /\ ret.issues[i].typed
       /\ ret.issues[i].labels = <<"kind/bug", "priority/p1">>
       /\ ret.issues[i].issueType = "bug"
       /\ ret.issues[j].labels = <<"Docs", "BUG">>
       /\ ret.issues[j].issueType = "bug"
       /\ ret.issues[k].labels = <<"good-first-issue">>
       /\ ret.issues[k].issueType = "other"

\* C20: every successful getIssues result, fetched or from the cache, holds
\* no pull request, at most maxIssues entries (300 by default), and gives
\* every entry one of the five issue types, also when the type-label lookup
\* failed.
C20_IssuesResult ==
  (ret.op = "getIssues" /\ "issues" \in DOMAIN ret) =>
    /\ Len(ret.issues) <= ret.maxIssues
    /\ \A i \in 1..Len(ret.issues) :
         /\ ~ret.issues[i].pull_request
         /\ ret.issues[i].issueType \in
              {"bug", "enhancement", "documentation", "question", "other"}

(***************************************************************************)
(* RepoProvider: the releases of the snapshot and their phase.  The remote *)
(* holds input.releases, the release with id i at position i, each         *)
(* [id, draft, prerelease]; ctx.releases is the list of the snapshot, each *)
(* release with its phase and issueCount.  call[s] is the operation in     *)
(* slot s at the request it awaits: in slot 1 a load of the repository (of *)
(* which getReleases and getIssues write releases), in the other slots     *)
(* createNewRelease or updateReleasePhase.                                 *)
(***************************************************************************)
MaxReleases == 3

\* the phases that the phase dialog of the release list offers
Phases == {"development", "staging", "production"}

\* a function that looks at prerelease before draft
determineReleasePhase_prereleaseFirst(release) ==
  IF release.prerelease THEN "staging"
  ELSE IF release.draft THEN "development"
  ELSE "production"

determineReleasePhase(release) ==
  IF release.draft THEN "development"
  ELSE IF release.prerelease THEN "staging"
  ELSE "production"

\* {...release, phase: determineReleasePhase(release), issueCount: 0}
Enhanced(release) ==
  [id |-> release.id, draft |-> release.draft,
   prerelease |-> release.prerelease,
   phase |-> determineReleasePhase(release), issueCount |-> 0]

\* the load effect starts fetching the repository: setError('')
LoadStarts(s) ==
  /\ call[s] = Idle
  /\ call' = [call EXCEPT ![s] = [pc |-> "getReleases", op |-> "load"]]
  /\ ret' = [op |-> "load", pending |-> TRUE]
  /\ ctx' = [ctx EXCEPT !.error = ""]
  /\ UNCHANGED <<now, cache, lastSet, input, tasks>>

\* getReleases returns to the load: the releases get their phase and are set
ReleasesLoaded(s, ok) ==
  /\ call[s] # Idle
  /\ call[s].pc = "getReleases"
  /\ LET enhancedReleases ==
           IF ok THEN [i \in 1..Len(input.releases) |->
                         Enhanced(input.releases[i])]
           ELSE <<>>
     IN /\ ctx' = IF ok THEN [ctx EXCEPT !.releases = enhancedReleases] ELSE ctx
        /\ call' = [call EXCEPT ![s] =
                      [pc |-> "getIssues", op |-> "load",
                       enhancedReleases |-> enhancedReleases]]
  /\ ret' = [op |-> "load", pending |-> TRUE]
  /\ UNCHANGED <<now, cache, lastSet, input, tasks>>

\* getIssues returns to the load: the releases that the load fetched are set
\* again, with the issues counted (`counted` for each)
IssuesAssociated(s, ok) ==
  /\ call[s] # Idle
  /\ call[s].pc = "getIssues"
  /\ LET enhancedReleases == call[s].enhancedReleases
     IN \E counted \in 0..1 :
          LET updatedReleases ==
                [i \in 1..Len(enhancedReleases) |->
                   [enhancedReleases[i] EXCEPT !.issueCount = counted]]
          IN ctx' = IF ok /\ Len(enhancedReleases) > 0
                      THEN [ctx EXCEPT !.releases = updatedReleases]
                    ELSE ctx
  /\ call' = [call EXCEPT ![s] = Idle]
  /\ ret' = [op |-> "load", success |-> TRUE]
  /\ UNCHANGED <<now, cache, lastSet, input, tasks>>

\* createNewRelease(releaseData) up to its request
NewRelease(s, draft, prerelease) ==
  /\ call[s] = Idle
  /\ call' = [call EXCEPT ![s] = [pc |-> "createRelease",
                                  op |-> "createNewRelease", draft |-> draft,
                                  prerelease |-> prerelease]]
  /\ ret' = [op |-> "createNewRelease", pending |-> TRUE]
  /\ UNCHANGED <<now, cache, lastSet, input, ctx, tasks>>

\* setError(result.error || 'Failed to create release') and the like: the
\* message of the failed request, or the text in its place; never empty
RequestError == "Request failed"

\* createRelease returns: the release that the remote made is put in front
ReleaseCreated(s, ok) ==
  /\ call[s] # Idle
  /\ call[s].pc = "createRelease"
  /\ ok => Len(input.releases) < MaxReleases
  /\ LET release == [id |-> Len(input.releases) + 1, draft |-> call[s].draft,
                     prerelease |-> call[s].prerelease]
     IN IF ok
          THEN /\ input' = [input EXCEPT !.releases = Append(@, release)]
               /\ ctx' = [ctx EXCEPT !.releases = <<Enhanced(release)>> \o @]
          ELSE /\ ctx' = [ctx EXCEPT !.error = RequestError]
               /\ UNCHANGED input
  /\ call' = [call EXCEPT ![s] = Idle]
  /\ ret' = [op |-> "createNewRelease", success |-> ok]
  /\ UNCHANGED <<now, cache, lastSet, tasks>>

\* the flags for a phase with staging sent as a draft too
PhaseFlags_stagingAsDraft(newPhase) ==
  [draft |-> newPhase \in {"development", "staging"},
   prerelease |-> newPhase = "staging"]

\* the flags that updateReleasePhase sends for a phase
PhaseFlags(newPhase) ==
  [draft |-> newPhase = "development", prerelease |-> newPhase = "staging"]

\* updateReleasePhase(releaseId, newPhase) up to its request, for a release
\* of the list and a phase of the dialog
NewPhase(s, releaseId, newPhase) ==
  /\ call[s] = Idle
  /\ \E i \in 1..Len(ctx.releases) : ctx.releases[i].id = releaseId
  /\ call' = [call EXCEPT ![s] =
                [pc |-> "updateRelease", op |-> "updateReleasePhase",
                 releaseId |-> releaseId, newPhase |-> newPhase,
                 updates |-> PhaseFlags(newPhase)]]
  /\ ret' = [op |-> "updateReleasePhase", pending |-> TRUE]
  /\ UNCHANGED <<now, cache, lastSet, input, ctx, tasks>>

\* updateRelease returns: the release of that id in the list gets the flags
\* sent and the phase asked for
PhaseUpdated(s, ok) ==
  /\ call[s] # Idle
  /\ call[s].pc = "updateRelease"
  /\ LET releaseId == call[s].releaseId
         updates == call[s].updates
     IN IF ok
          THEN /\ input' =
                    [input EXCEPT !.releases =
                       [i \in 1..Len(@) |->
                          IF @[i].id = releaseId
                            THEN [@[i] EXCEPT !.draft = updates.draft,
                                              !.prerelease = updates.prerelease]
                            ELSE @[i]]]
               /\ ctx' =
                    [ctx EXCEPT !.releases =
                       [i \in 1..Len(@) |->
                          IF @[i].id = releaseId
                            THEN [@[i] EXCEPT !.draft = updates.draft,
                                              !.prerelease = updates.prerelease,
                                              !.phase = call[s].newPhase]
                            ELSE @[i]]]
          ELSE /\ ctx' = [ctx EXCEPT !.error = RequestError]
               /\ UNCHANGED input
  /\ call' = [call EXCEPT ![s] = Idle]
  /\ ret' = [op |-> "updateReleasePhase", success |-> ok]
  /\ UNCHANGED <<now, cache, lastSet, tasks>>

\* clearRepoData: setReleases([])
ReleasesCleared ==
  /\ ctx.releases # <<>>
  /\ ctx' = [ctx EXCEPT !.releases = <<>>]
  /\ ret' = [op |-> "clearRepoData"]
  /\ UNCHANGED <<now, cache, lastSet, input, call, tasks>>

NextReleases ==
  \/ LoadStarts(1)
  \/ \E ok \in BOOLEAN : ReleasesLoaded(1, ok)
  \/ \E ok \in BOOLEAN : IssuesAssociated(1, ok)
  \/ \E s \in 2..MaxCalls, draft \in BOOLEAN, prerelease \in BOOLEAN :
       NewRelease(s, draft, prerelease)
  \/ \E s \in 2..MaxCalls, ok \in BOOLEAN : ReleaseCreated(s, ok)
  \/ \E s \in 2..MaxCalls, releaseId \in 1..MaxReleases, newPhase \in Phases :
       NewPhase(s, releaseId, newPhase)
  \/ \E s \in 2..MaxCalls, ok \in BOOLEAN : PhaseUpdated(s, ok)
  \/ ReleasesCleared

InitReleases ==
  /\ now = 0
  /\ cache = EmptyMap
  /\ lastSet = EmptyMap
  /\ \E n \in 0..(MaxReleases - 1) :
       \E flags \in [1..n -> [draft : BOOLEAN, prerelease : BOOLEAN]] :
         input = [releases |->
                    [i \in 1..n |-> [id |-> i, draft |-> flags[i].draft,
                                     prerelease |-> flags[i].prerelease]]]
  /\ call = [s \in 1..MaxCalls |-> Idle]
  /\ ret = [op |-> "init"]
  /\ ctx = [InitialContext EXCEPT !.releases = <<>>]
  /\ tasks = NoTasks

SpecReleases == InitReleases /\ [][NextReleases]_vars

\* C17: the phase is a function of (draft, prerelease) with one result for
\* each of the four combinations: development for a draft whatever
\* prerelease is, staging for a prerelease that is no draft, production for
\* neither; and every release of the snapshot, loaded or created, has the
\* phase of its flags.
C17_PhaseOfFlags ==
  \A i \in 1..Len(ctx.releases) :
    LET release == ctx.releases[i]
    IN /\ (release.draft /\ release.prerelease) => release.phase = "development"
       /\ (release.draft /\ ~release.prerelease) => release.phase = "development"
       /\ (~release.draft /\ release.prerelease) => release.phase = "staging"
       /\ (~release.draft /\ ~release.prerelease) => release.phase = "production"

\* a release created as draft and prerelease in front of a loaded
\* prerelease and a loaded release that is neither
C17_Witness ==
  /\ ret.op = "createNewRelease"
  /\ "success" \in DOMAIN ret
  /\ ret.success
  /\ Len(ctx.releases) = 3
  /\ ctx.releases[1].draft /\ ctx.releases[1].prerelease
  /\ ctx.releases[1].phase = "development"
  /\ \E i, j \in 2..3 :
       /\ ~ctx.releases[i].draft /\ ctx.releases[i].prerelease
       /\ ctx.releases[i].phase = "staging"
       /\ ~ctx.releases[j].draft /\ ~ctx.releases[j].prerelease
       /\ ctx.releases[j].phase = "production"

(***************************************************************************)
(* getWorkflows and getWorkflowRuns of the client for the repository       *)
(* "o/r" and the rate limit they track.  In this part ctx is the client:   *)
(* rateLimitRemaining and rateLimitReset, NotRecorded while null.  now is  *)
(* Date.now() in half seconds.  A response carries the headers             *)
(* x-ratelimit-remaining and x-ratelimit-reset as strings, "" when the     *)
(* header is absent, and says whether its page is full; a list is kept as  *)
(* the number of pages fetched.  call[s] is the call in slot s, at the     *)
(* page request it awaits.                                                 *)
(***************************************************************************)
MaxClock == 3
MaxPages == 2
NotRecorded == -1

\* parseInt(str, 10) of a string of digits
RECURSIVE ParseInt(_)
ParseInt(str) ==
  IF Len(str) = 0 THEN 0
  ELSE LET digits == "0123456789"
           last == SubSeq(str, Len(str), Len(str))
           d == CHOOSE i \in 1..Len(digits) : SubSeq(digits, i, i) = last
       IN 10 * ParseInt(SubSeq(str, 1, Len(str) - 1)) + (d - 1)

\* _trackRateLimit(response): a header that is there is recorded
TrackRateLimit(client, remaining, reset) ==
  [client EXCEPT
     !.rateLimitRemaining = IF remaining # "" THEN ParseInt(remaining) ELSE @,
     !.rateLimitReset = IF reset # "" THEN ParseInt(reset) ELSE @]

\* a back-off that does not look at the reset time
ShouldBackOff_whateverReset(client, t) ==
  client.rateLimitRemaining # NotRecorded /\ client.rateLimitRemaining < 10

\* _shouldBackOff() at Date.now() = t half seconds
ShouldBackOff(client, t) ==
  IF client.rateLimitRemaining # NotRecorded /\ client.rateLimitRemaining < 10
    THEN LET nowSeconds == t \div 2
             timeToReset ==
               IF client.rateLimitReset # NotRecorded /\ client.rateLimitReset # 0
                 THEN client.rateLimitReset - nowSeconds
               ELSE 0
         IN timeToReset > 0
    ELSE FALSE

WorkflowOps == {"getWorkflows", "getWorkflowRuns"}

\* the cache key of the operation (getWorkflowRuns for all workflows)
WorkflowKey(op) ==
  IF op = "getWorkflows" THEN WorkflowsKey("o", "r")
  ELSE WorkflowRunsKey("o", "r", "all")

\* getWorkflows(owner, repo) or getWorkflowRuns(owner, repo) up to its first
\* request: served from the cache, refused, or sent
WorkflowCall(s, op) ==
  /\ call[s] = Idle
  /\ LET cachedData == getCachedItem(cache, WorkflowKey(op), now)
     IN /\ cache' = cachedData.cache
        /\ IF cachedData.hit
             THEN /\ call' = call
                  /\ ret' = [op |-> op, success |-> TRUE, fromCache |-> TRUE,
                             pages |-> cachedData.data]
           ELSE IF ShouldBackOff(ctx, now)
             THEN /\ call' = call
                  /\ ret' = [op |-> op, success |-> FALSE,
                             error |-> "Rate limit exceeded. Please try again later.",
                             rateLimit |->
                               [remaining |-> ctx.rateLimitRemaining,
                                resetAt |-> ctx.rateLimitReset * 1000]]
           ELSE /\ call' = [call EXCEPT ![s] =
                              [pc |-> "request", op |-> op, page |-> 1]]
                /\ ret' = [op |-> op, pending |-> TRUE]
  /\ UNCHANGED <<now, lastSet, input, ctx, tasks>>

\* a page request returns with its headers, its page full or not: the rate
\* limit is tracked and the next page is asked for, or the list is cached
\* and returned
WorkflowResponse(s, remaining, reset, full) ==
  /\ call[s] # Idle
  /\ call[s].pc = "request"
  /\ ctx' = TrackRateLimit(ctx, remaining, reset)
  /\ IF full /\ call[s].page < MaxPages
       THEN /\ call' = [call EXCEPT ![s].page = @ + 1]
            /\ ret' = [op |-> call[s].op, pending |-> TRUE]
            /\ cache' = cache
       ELSE /\ call' = [call EXCEPT ![s] = Idle]
            /\ ret' = [op |-> call[s].op, success |-> TRUE,
                       fromCache |-> FALSE, pages |-> call[s].page]
            /\ cache' = setCacheItem(cache, WorkflowKey(call[s].op),
                                     call[s].page, DefaultCacheExpiry * 120, now)
  /\ UNCHANGED <<now, lastSet, input, tasks>>

\* a page request fails: getWorkflows returns the failure, getWorkflowRuns
\* ends its loop, caches the pages it has and returns them
WorkflowRequestFails(s) ==
  /\ call[s] # Idle
  /\ call[s].pc = "request"
  /\ call' = [call EXCEPT ![s] = Idle]
  /\ IF call[s].op = "getWorkflows"
       THEN /\ ret' = [op |-> call[s].op, success |-> FALSE,
                       error |-> "request failed"]
            /\ cache' = cache
       ELSE /\ ret' = [op |-> call[s].op, success |-> TRUE,
                       fromCache |-> FALSE, pages |-> call[s].page - 1]
            /\ cache' = setCacheItem(cache, WorkflowKey(call[s].op),
                                     call[s].page - 1, DefaultCacheExpiry * 120,
                                     now)
  /\ UNCHANGED <<now, lastSet, input, ctx, tasks>>

\* half a second passes
HalfSecondPasses ==
  /\ now < MaxClock
  /\ now' = now + 1
  /\ ret' = [op |-> "tick"]
  /\ UNCHANGED <<cache, lastSet, input, call, ctx, tasks>>

NextRate ==
  \/ \E s \in 1..MaxCalls, op \in WorkflowOps : WorkflowCall(s, op)
  \/ \E s \in 1..MaxCalls, remaining \in {"", "0", "9", "10"},
        reset \in {"", "0", "1"}, full \in BOOLEAN :
       WorkflowResponse(s, remaining, reset, full)
  \/ \E s \in 1..MaxCalls : WorkflowRequestFails(s)
  \/ HalfSecondPasses
  \/ ClearRepoCache("o", "r")

InitRate ==
  /\ now = 0
  /\ cache = EmptyMap
  /\ lastSet = EmptyMap
  /\ input = [n |-> 0, cap |-> Unlimited, failAt |-> 0]
  /\ call = [s \in 1..MaxCalls |-> Idle]
  /\ ret = [op |-> "init"]
  /\ ctx = [rateLimitRemaining |-> NotRecorded, rateLimitReset |-> NotRecorded]
  /\ tasks = NoTasks

SpecRate == InitRate /\ [][NextRate]_vars

\* fewer than 10 requests are recorded as remaining and the recorded reset
\* time is still ahead
RateLimited ==
  /\ ctx.rateLimitRemaining # NotRecorded
  /\ ctx.rateLimitRemaining < 10
  /\ ctx.rateLimitReset # NotRecorded
  /\ 2 * ctx.rateLimitReset > now

\* C18: a getWorkflows or getWorkflowRuns call that is not served from the
\* cache sends its request only when the client is not rate limited, and is
\* refused only when it is: without a request, with success false and the
\* rate-limit error that carries the recorded remaining count and reset
\* time.  A call made with 10 or more remaining, with nothing recorded, or
\* at or after the reset time is not refused.
C18_BackOff ==
  [][/\ \A s \in 1..MaxCalls : Sends(s, "request") => ~RateLimited
     /\ (ret' # ret /\ ret'.op \in WorkflowOps /\ "rateLimit" \in DOMAIN ret')
        => /\ RateLimited
           /\ call' = call
           /\ ~ret'.success
           /\ ret'.rateLimit = [remaining |-> ctx.rateLimitRemaining,
                                resetAt |-> 1000 * ctx.rateLimitReset]]_vars

\* getWorkflowRuns is refused in the last half second before the reset,
\* with no request left
C18_Witness ==
  /\ ret.op = "getWorkflowRuns"
  /\ "rateLimit" \in DOMAIN ret
  /\ ret.rateLimit = [remaining |-> 0, resetAt |-> 1000]
  /\ now = 1
  /\ call = [s \in 1..MaxCalls |-> Idle]


\* every list of the snapshot is empty and no repository is current
SnapshotEmpty ==
  /\ ctx.currentRepo = Null
  /\ ctx.releases = NoReleases
  /\ ctx.pullRequests = NoList
  /\ ctx.issues = NoData
  /\ ctx.labels = NoData
  /\ ctx.milestones = NoData
  /\ ctx.issueTypes = NoData
  /\ ctx.reviewStatuses = NoList

\* C21: after clearRepoData() the snapshot is empty and the cache holds no
\* entry of the repository that was selected, and both stay so until the
\* next fetchRepoData, also when a load or a background fetch for that
\* repository is suspended at a network call at the time of the clear.
C21_ClearedStaysEmpty ==
  ctx.cleared =>
    /\ SnapshotEmpty
    /\ \A k \in DOMAIN cache : ~StartsWith(k, RepoPrefix(ctx.owner, ctx.repo))


\* the label request in task id returns in this step, with success or not
LabelRequestEnds(id, success) ==
  /\ tasks[id].kind = "labelRequest"
  /\ tasks'[id] # tasks[id]
  /\ success <=> input'.labelled = input.labelled + 1

\* a load starts in this step
LoadStartsIn(id) ==
  /\ tasks'[id] # tasks[id]
  /\ tasks'[id].kind = "load"
  /\ tasks'[id].pc = "getRepository"

SnapshotLists ==
  <<ctx.releases, ctx.pullRequests, ctx.issues, ctx.issuesLabelled, ctx.labels,
    ctx.milestones, ctx.issueTypes, ctx.reviewStatuses>>

\* C22: after a successful addLabelToItem or removeLabelFromItem a reload
\* of the current repository is triggered (it starts, or shouldLoadRepo is
\* set), and the issues that this reload receives were fetched from the
\* remote after the label change, so they show it; a failed one triggers
\* no reload and leaves the lists of the snapshot unchanged.
C22_ReloadShowsLabelChange ==
  /\ [](\A id \in 1..MaxTasks :
         (tasks[id].kind = "load" /\ tasks[id].reloadFor > 0
            /\ tasks[id].gotIssues # NotYet)
         => tasks[id].gotIssues >= tasks[id].reloadFor)
  /\ [][\A id \in 1..MaxTasks :
         /\ LabelRequestEnds(id, TRUE)
            => \/ ctx'.shouldLoadRepo
               \/ \E j \in 1..MaxTasks :
                     LoadStartsIn(j) /\ tasks'[j].reloadFor = input'.labelled
         /\ LabelRequestEnds(id, FALSE)
            => /\ SnapshotLists' = SnapshotLists
               /\ ctx'.shouldLoadRepo => ctx.shouldLoadRepo
               /\ (\E j \in 1..MaxTasks : LoadStartsIn(j))
                     => ctx.shouldLoadRepo]_vars


\* the request of the operation op in slot s returns in this step
MutationReturns(s, op, success) ==
  /\ call[s] # Idle
  /\ call[s].op = op
  /\ call'[s] = Idle
  /\ ret'.success = success

\* C23: after a successful updateReleasePhase(releaseId, newPhase) the
\* release of that id in the snapshot has the phase newPhase and flags for
\* which determineReleasePhase yields newPhase again, and every other
\* release is unchanged; after a failed createNewRelease or
\* updateReleasePhase the releases are unchanged and the error is set.
C23_PhaseSetAndFrame ==
  [][\A s \in 1..MaxCalls :
       /\ MutationReturns(s, "updateReleasePhase", TRUE)
          => /\ Len(ctx'.releases) = Len(ctx.releases)
             /\ \A i \in 1..Len(ctx.releases) :
                  IF ctx.releases[i].id = call[s].releaseId
                    THEN /\ ctx'.releases[i].phase = call[s].newPhase
                         /\ determineReleasePhase(ctx'.releases[i])
                              = call[s].newPhase
                         /\ ctx'.releases[i].id = ctx.releases[i].id
                         /\ ctx'.releases[i].issueCount
                              = ctx.releases[i].issueCount
                    ELSE ctx'.releases[i] = ctx.releases[i]
       /\ (\/ MutationReturns(s, "updateReleasePhase", FALSE)
           \/ MutationReturns(s, "createNewRelease", FALSE))
          => /\ ctx'.releases = ctx.releases
             /\ ctx'.error # ""]_vars

\* a phase update has succeeded and, of two releases in the snapshot, one
\* is in staging with the flags of staging and the other in production
C23_Witness ==
  /\ ret.op = "updateReleasePhase"
  /\ "success" \in DOMAIN ret
  /\ ret.success
  /\ Len(ctx.releases) = 2
  /\ ctx.releases[1].phase = "staging"
  /\ ~ctx.releases[1].draft /\ ctx.releases[1].prerelease
  /\ input.releases[ctx.releases[1].id].prerelease
  /\ ctx.releases[2].phase = "production"


(***************************************************************************)
(* getPullRequests against a list of more than BatchSize pull requests     *)
(* that are all open and need their reviews: the first one has no review   *)
(* and a requested reviewer, the others have an approval.                  *)
(***************************************************************************)
InitOrder ==
  /\ now = 0
  /\ cache = EmptyMap
  /\ lastSet = EmptyMap
  /\ \E n \in {BatchSize + 1, BatchSize + ExtraPRs} :
        input = [n |-> n, cap |-> DefaultMaxPRs, failAt |-> 0,
                 prs |-> [j \in 1..n |-> OpenPR(j, IF j = 1 THEN 1 ELSE 2)]]
  /\ call = Idle
  /\ ret = [op |-> "init"]
  /\ ctx = InitialContext
  /\ tasks = NoTasks

SpecOrder == InitOrder /\ [][NextPRs]_vars

\* the pull requests whose callback awaits a review request
InFlight(st) ==
  {j \in DOMAIN st.stage : st.stage[j] \in {"reviews", "requests"}}

\* the callback of allPRs[k] has returned
Finished(st, k) ==
  \/ k <= Len(st.processed)
  \/ k \in DOMAIN st.stage /\ st.stage[k] = "done"

\* C25: a full getPullRequests processes the pull requests in consecutive
\* batches of at most 10: while a review request of a pull request is in
\* flight, every pull request of the batches before its own has finished,
\* so at most 10 pull requests have review requests in flight; and the
\* list returned has the fetched pull requests in the fetched order,
\* whatever the order in which the requests return.
C25_BatchesInOrder ==
  /\ call.pc = "batch" =>
       /\ Cardinality(InFlight(call)) <= 10
       /\ \A j \in InFlight(call), k \in 1..Len(call.allPRs) :
            (k - 1) \div 10 < (j - 1) \div 10 => Finished(call, k)
  /\ (FullReturn /\ ~ret.fromCache) =>
       /\ Len(ret.pullRequests) = Len(input.prs)
       /\ \A k \in 1..Len(input.prs) :
            ret.pullRequests[k].number = input.prs[k].number

\* the second batch is in flight after all ten pull requests of the first
\* had their reviews fetched
C25_Witness ==
  /\ call.pc = "batch"
  /\ call.i = 10
  /\ InFlight(call) # {}
  /\ Len(call.processed) = 10
  /\ \A k \in 1..10 : call.processed[k].how = "derived"


(***************************************************************************)
(* getPullRequests called again and again while the cache ages: after 31   *)
(* minutes a cached list (30 minutes) has expired and the review status    *)
(* cached for a pull request (60 minutes) has not.                         *)
(***************************************************************************)
ListLifePasses ==
  /\ now <= DefaultCacheExpiry + 1
  /\ now' = now + DefaultCacheExpiry + 1
  /\ UNCHANGED <<cache, lastSet, input, call, ret, ctx, tasks>>

NextReviewCache ==
  \/ NextPRs
  \/ ListLifePasses

InitReviewCache ==
  /\ now = 0
  /\ cache = EmptyMap
  /\ lastSet = EmptyMap
  /\ \E n \in {2, BatchSize + 1}, open \in SUBSET {1, 2, BatchSize + 1},
        shift \in 0..3 :
        /\ open \subseteq 1..n
        /\ input = [n |-> n, cap |-> DefaultMaxPRs, failAt |-> 0,
                    prs |-> PRList(n, open, shift)]
  /\ call = Idle
  /\ ret = [op |-> "init"]
  /\ ctx = InitialContext
  /\ tasks = NoTasks

SpecReviewCache == InitReviewCache /\ [][NextReviewCache]_vars

ReviewKeyOf(j) ==
  "o/r:pr:" \o ToString(input.prs[j].number) \o ":review"

\* the cache holds an entry under key whose expiry time has not passed
Unexpired(key) == key \in DOMAIN cache /\ now <= cache[key].expiry

\* a request of the given kind for allPRs[j] is sent in this step
RequestSent(j, kind) ==
  /\ call'.pc = "batch"
  /\ j \in DOMAIN call'.stage
  /\ call'.stage[j] = kind
  /\ \/ call.pc # "batch"
     \/ j \notin DOMAIN call.stage
     \/ call.stage[j] # kind

\* the callback of allPRs[j] has started
Started(c, r, j) ==
  IF c.pc = "batch" THEN j <= Len(c.processed) \/ j \in DOMAIN c.stage
  ELSE "how" \in DOMAIN r /\ j <= Len(r.how)

\* the callback of allPRs[j] starts in this step, and what it has returned
\* after the step
StartsNow(j) ==
  /\ now' = now
  /\ call.pc = "batch" => ~Started(call, ret, j)
  /\ Started(call', ret', j)

OutcomeAfter(j) ==
  IF call'.pc = "batch"
    THEN IF j <= Len(call'.processed) THEN call'.processed[j]
         ELSE IF call'.stage[j] = "done" THEN call'.result[j]
         ELSE [how |-> "pending"]
  ELSE [pr |-> ret'.pullRequests[j], how |-> ret'.how[j]]

\* C24: in a full getPullRequests a pull request that has an unexpired
\* review-status entry in the cache causes no listReviews and no
\* listRequestedReviewers request and gets the cached status; an entry for
\* a pull request is written with a life of 60 minutes; and every pull
\* request whose status was derived without error has its status in the
\* cache under a key that contains its number.
C24_ReviewStatusCache ==
  /\ [](FullReturn =>
          \A k \in 1..Len(ret.pullRequests) :
            ret.how[k] = "derived" =>
              /\ ReviewKeyOf(k) \in DOMAIN cache
              /\ cache[ReviewKeyOf(k)].data = ret.pullRequests[k].reviewStatus
              /\ Includes(ReviewKeyOf(k), ToString(ret.pullRequests[k].number))
              /\ \A m \in 1..Len(ret.pullRequests) :
                   m # k => ReviewKeyOf(m) # ReviewKeyOf(k))
  /\ [][\A j \in 1..Len(input.prs) :
         /\ (RequestSent(j, "reviews") \/ RequestSent(j, "requests"))
              => ~Unexpired(ReviewKeyOf(j))
         /\ (StartsNow(j) /\ Unexpired(ReviewKeyOf(j)))
              => /\ OutcomeAfter(j).how = "cached"
                 /\ OutcomeAfter(j).pr.reviewStatus = cache[ReviewKeyOf(j)].data
         /\ (ReviewKeyOf(j) \in DOMAIN cache'
               /\ (ReviewKeyOf(j) \in DOMAIN cache
                      => cache'[ReviewKeyOf(j)] # cache[ReviewKeyOf(j)]))
              => cache'[ReviewKeyOf(j)].expiry = now + 60]_vars

\* half an hour after a first call in which the review request of the
\* second pull request failed, a full getPullRequests has given the first
\* pull request its cached status and fetched the reviews of the second
C24_Witness ==
  /\ FullReturn
  /\ now = DefaultCacheExpiry + 1
  /\ Len(ret.pullRequests) > 1
  /\ ret.how[1] = "cached"
  /\ ret.fetched[1].state = "open" /\ ~ret.fetched[1].draft
  /\ ret.pullRequests[1].reviewStatus # "NO_REVIEW"
  /\ ret.how[2] = "derived"
  /\ cache[ReviewKeyOf(2)].expiry = now + PRReviewExpiry


\* the Client operations of a load in the order of the effect; a load is
\* suspended at the operations that went to the network
LoadOrder ==
  <<"getRepository", "getReleases", "getMilestones", "getIssueTypes",
    "getPullRequests", "getPRReviewStatuses", "getIssues", "getLabels">>

Rank(pc) == CHOOSE k \in 1..Len(LoadOrder) : LoadOrder[k] = pc

\* the load in task id goes on in this step, and is still running after it
LoadGoesOn(id) ==
  /\ tasks[id].kind = "load"
  /\ tasks'[id].kind = "load"
  /\ tasks'[id].pc # tasks[id].pc
  /\ tasks'[id].pc # "getRepository"

\* the load in task id ends in this step
LoadEnds(id) ==
  /\ tasks[id].kind = "load"
  /\ tasks'[id] # tasks[id]
  /\ tasks'[id].kind # "load" \/ tasks'[id].pc = "getRepository"

\* C26: within one load the Client operations start in the fixed order
\* getRepository, getReleases, getMilestones, getIssueTypes,
\* getPullRequests, getIssues, getLabels, each after the one before has
\* returned; the releases are set with their issues only by a load that has
\* both its releases and its issues; and when getRepository fails the load
\* ends without starting a later operation.
C26_LoadOrder ==
  [][\A id \in 1..MaxTasks :
       /\ LoadGoesOn(id) =>
            /\ Rank(tasks'[id].pc) > Rank(tasks[id].pc)
            /\ Rank(tasks[id].pc) < 4 =>
                 Rank(tasks'[id].pc) = Rank(tasks[id].pc) + 1
            /\ tasks[id].pc = "getRepository" =>
                 ctx'.currentRepo = FullName(tasks[id].owner, tasks[id].repo)
            /\ (Rank(tasks[id].pc) >= 4 /\ ctx'.releases # ctx.releases) =>
                 /\ tasks[id].enhancedReleases
                 /\ tasks'[id].gotIssues # NotYet
                 /\ tasks'[id].pc = "getLabels"
       /\ LoadEnds(id) =>
            \/ tasks[id].pc = "getRepository" /\ ctx'.currentRepo = Null
            \/ tasks[id].pc = "getLabels"
            \/ /\ Rank(tasks[id].pc) \in 4..7
               /\ input.throws /\ tasks[id].enhancedReleases
               /\ ctx'.error = LoadError]_vars

\* a load awaits getLabels after every operation before it succeeded, the
\* releases set again with the issues
C26_Witness ==
  \E id \in 1..MaxTasks :
    /\ tasks[id].kind = "load"
    /\ tasks[id].pc = "getLabels"
    /\ tasks[id].enhancedReleases
    /\ tasks[id].gotIssues # NotYet
    /\ LET name == FullName(tasks[id].owner, tasks[id].repo)
       IN /\ ctx.currentRepo = name
          /\ ctx.releases.from = name
          /\ ctx.milestones = name
          /\ ctx.issueTypes = name
          /\ ctx.pullRequests.from = name
          /\ ctx.issues = name


\* the list (kept as the name of the repository it was fetched from) is
\* empty or comes from the current repository
OfCurrentRepo(from) == from \in {NoData, ctx.currentRepo}

\* C27: whenever no load is in progress and a repository is selected, every
\* list of the snapshot was fetched for that repository: after the
\* selection moved from A to B and a sub-fetch for B failed, the list
\* concerned does not keep the data of A.
C27_ListsOfCurrentRepo ==
  (Loads = {} /\ ~ctx.loading /\ ctx.currentRepo # Null) =>
    /\ OfCurrentRepo(ctx.releases.from)
    /\ OfCurrentRepo(ctx.pullRequests.from)
    /\ OfCurrentRepo(ctx.reviewStatuses.from)
    /\ OfCurrentRepo(ctx.issues)
    /\ OfCurrentRepo(ctx.labels)
    /\ OfCurrentRepo(ctx.milestones)
    /\ OfCurrentRepo(ctx.issueTypes)


\* C28: a fetchRepoData call made while a load is in progress is not lost:
\* shouldLoadRepo stays set until a load starts, and the load that starts
\* is for the owner and repository selected last.
C28_SelectionNotLost ==
  /\ [](ctx.selectPending => ctx.shouldLoadRepo)
  /\ [][\A id \in 1..MaxTasks :
         LoadStartsIn(id) => /\ tasks'[id].owner = ctx'.owner
                             /\ tasks'[id].repo = ctx'.repo]_vars


\* the call in slot s returns {success: false} in this step
CallFails(s) ==
  /\ call[s] # Idle
  /\ call'[s] = Idle
  /\ "success" \in DOMAIN ret'
  /\ ~ret'.success

\* C29: a Client operation that returns {success: false} leaves the cache
\* as it was before the call: it has added, overwritten or removed no
\* entry (here getLabels and addLabelToIssue).
C29_FailureLeavesCache ==
  [][\A s \in 1..MaxCalls :
       CallFails(s) => (~call[s].touched /\ cache' = cache)]_vars


(***************************************************************************)
(* The loads on their own: the user selects repositories, and every        *)
(* network call of a load or of a background fetch returns in the end.     *)
(***************************************************************************)
\* the network call that task id awaits returns or fails
CallReturns(id) ==
  \/ \E ok \in BOOLEAN : GetRepositoryReturns(id, ok)
  \/ GetReleasesReturns(id)
  \/ GetMilestonesReturns(id)
  \/ \E expired1 \in BOOLEAN, expired2 \in BOOLEAN, expired3 \in BOOLEAN :
        GetIssueTypesReturns(id, expired1, expired2, expired3)
  \/ \E ok \in BOOLEAN, expired1 \in BOOLEAN, expired2 \in BOOLEAN,
        expired3 \in BOOLEAN :
        QuickPullRequestsReturn(id, ok, expired1, expired2, expired3)
  \/ \E ok \in BOOLEAN, expired \in BOOLEAN : ReviewStatusesReturn(id, ok, expired)
  \/ \E labelled \in 0..MaxEvents : GetIssuesReturns(id, labelled)
  \/ GetLabelsReturns(id)
  \/ \E ok \in BOOLEAN, expired \in BOOLEAN :
        BackgroundPullRequestsReturn(id, ok, expired)
  \/ \E ok \in BOOLEAN : BackgroundStatusesReturn(id, ok)

\* the user events of a behaviour of the loads
MaxSelections == 2

NextLoads ==
  \/ \E p \in Repositories : now < MaxSelections /\ FetchRepoData(p[1], p[2])
  \/ now < MaxSelections /\ ClearRepoData
  \/ \E id \in 1..MaxTasks : CallReturns(id)

SpecLoads ==
  /\ InitRepo
  /\ [][NextLoads]_vars
  /\ \A id \in 1..MaxTasks : WF_vars(CallReturns(id))

\* C30: every load that starts terminates: when every network call returns
\* or fails in the end, the provider comes to a state in which no load is
\* running and loading is false, whichever sub-fetch fails or throws.
C30_LoadTerminates ==
  (Loads # {} \/ ctx.loading) ~> (Loads = {} /\ ~ctx.loading)

\* a load has ended in the catch branch and loading is false again
C30_Witness ==
  /\ Loads = {}
  /\ ~ctx.loading
  /\ ctx.error = LoadError
  /\ now > 0

====
